---------------------------- MODULE Spec2Model ----------------------------
(***************************************************************************)
(* A model of the modern-table component: the derived-view pipeline        *)
(* (filter -> sort -> paginate -> window), the per-feature state and the   *)
(* handlers that mutate it, and the pure engines the pipeline is built of. *)
(***************************************************************************)
EXTENDS Integers, Sequences, FiniteSets, TLC

(***************************************************************************)
(* Bounds of the model.                                                    *)
(***************************************************************************)
MaxRows == 3
MaxPageSize == 2
MaxScrollTop == 4
MaxFnRows == 3
MaxCompareNum == 3
MaxPagedRows == 5
MaxItemHeight == 3
MaxBufferSize == 1
MaxViewport == 4
MaxConditions == 2
MaxGenerated == 5
MaxComputedColumns == 2
MaxStaticOrder == 2

(***************************************************************************)
(* Program constants.                                                      *)
(***************************************************************************)
DefaultPageSize == 10

(***************************************************************************)
(* JavaScript values.  A value is a record [t, n, s, items]: a number (n), *)
(* a string (s, a sequence of one-character strings), a boolean, null,     *)
(* undefined, or an array (items, a sequence of values).                   *)
(***************************************************************************)
Num(k) == [t |-> "num", n |-> k, s |-> <<>>, items |-> <<>>]
Str(cs) == [t |-> "str", n |-> 0, s |-> cs, items |-> <<>>]
Null == [t |-> "null", n |-> 0, s |-> <<>>, items |-> <<>>]
Undef == [t |-> "undef", n |-> 0, s |-> <<>>, items |-> <<>>]
Bool(b) == [t |-> "bool", n |-> IF b THEN 1 ELSE 0, s |-> <<>>, items |-> <<>>]
Arr(vs) == [t |-> "arr", n |-> 0, s |-> <<>>, items |-> vs]

\* Array.isArray(v)
IsArray(v) == v.t = "arr"

IsNullish(v) == v.t \in {"null", "undef"}

\* row[key]: a missing property reads as undefined
Field(row, key) == IF key \in DOMAIN row THEN row[key] ELSE Undef

Sign(x) == IF x < 0 THEN -1 ELSE IF x > 0 THEN 1 ELSE 0

DigitChar(d) ==
  CASE d = 0 -> "0" [] d = 1 -> "1" [] d = 2 -> "2" [] d = 3 -> "3"
    [] d = 4 -> "4" [] d = 5 -> "5" [] d = 6 -> "6" [] d = 7 -> "7"
    [] d = 8 -> "8" [] OTHER -> "9"

IsDigit(c) == c \in {"0", "1", "2", "3", "4", "5", "6", "7", "8", "9"}

DigitVal(c) ==
  CASE c = "0" -> 0 [] c = "1" -> 1 [] c = "2" -> 2 [] c = "3" -> 3
    [] c = "4" -> 4 [] c = "5" -> 5 [] c = "6" -> 6 [] c = "7" -> 7
    [] c = "8" -> 8 [] OTHER -> 9

RECURSIVE Digits(_)
Digits(k) == IF k < 10 THEN <<DigitChar(k)>>
             ELSE Digits(k \div 10) \o <<DigitChar(k % 10)>>

\* String(v) of a value that is not an array
ToStr(v) ==
  CASE v.t = "num" -> IF v.n < 0 THEN <<"-">> \o Digits(-v.n) ELSE Digits(v.n)
    [] v.t = "str" -> v.s
    [] v.t = "null" -> <<"n", "u", "l", "l">>
    [] v.t = "bool" -> IF v.n = 1 THEN <<"t", "r", "u", "e">>
                       ELSE <<"f", "a", "l", "s", "e">>
    [] OTHER -> <<"u", "n", "d", "e", "f", "i", "n", "e", "d">>

\* String(array): the items joined by commas, a null or undefined item giving
\* the empty string (the items are not arrays themselves)
ArrayToStr(items) ==
  LET joined[i \in 0..Len(items)] ==
        IF i = 0 THEN <<>>
        ELSE (IF i = 1 THEN <<>> ELSE joined[i - 1] \o <<",">>)
               \o (IF items[i].t \in {"null", "undef"} THEN <<>> ELSE ToStr(items[i]))
  IN  joined[Len(items)]

\* String(v) of a value that may be an array: the value of a filter
StringOf(v) == IF v.t = "arr" THEN ArrayToStr(v.items) ELSE ToStr(v)

LowerChar(c) ==
  CASE c = "A" -> "a" [] c = "B" -> "b" [] c = "X" -> "x" [] c = "Y" -> "y"
    [] c = "T" -> "t" [] c = "R" -> "r" [] c = "U" -> "u" [] c = "E" -> "e"
    [] OTHER -> c

\* s.toLowerCase()
ToLower(cs) == [i \in 1..Len(cs) |-> LowerChar(cs[i])]

\* s.includes(sub)
Includes(cs, sub) ==
  \E i \in 1..(Len(cs) + 1) :
    /\ i + Len(sub) - 1 <= Len(cs)
    /\ SubSeq(cs, i, i + Len(sub) - 1) = sub

StartsWith(cs, sub) ==
  /\ Len(sub) <= Len(cs)
  /\ SubSeq(cs, 1, Len(sub)) = sub

EndsWith(cs, sub) ==
  /\ Len(sub) <= Len(cs)
  /\ SubSeq(cs, Len(cs) - Len(sub) + 1, Len(cs)) = sub

RECURSIVE TrimLeft(_)
TrimLeft(cs) == IF cs # <<>> /\ Head(cs) = " " THEN TrimLeft(Tail(cs)) ELSE cs

RECURSIVE TrimRight(_)
TrimRight(cs) == IF cs # <<>> /\ cs[Len(cs)] = " "
                 THEN TrimRight(SubSeq(cs, 1, Len(cs) - 1)) ELSE cs

\* s.trim()
Trim(cs) == TrimRight(TrimLeft(cs))

RECURSIVE DigitsValue(_)
DigitsValue(cs) == IF cs = <<>> THEN 0
                   ELSE 10 * DigitsValue(SubSeq(cs, 1, Len(cs) - 1)) + DigitVal(cs[Len(cs)])

NaN == [nan |-> TRUE, n |-> 0]
Finite(k) == [nan |-> FALSE, n |-> k]

\* Number(string): blank is 0, an optionally signed digit string is its value, else NaN
ParseNumber(cs) ==
  LET t == Trim(cs)
      neg == t # <<>> /\ Head(t) = "-"
      ds == IF neg THEN Tail(t) ELSE t
  IN  IF t = <<>> THEN Finite(0)
      ELSE IF ds # <<>> /\ \A i \in 1..Len(ds) : IsDigit(ds[i])
           THEN Finite(IF neg THEN -DigitsValue(ds) ELSE DigitsValue(ds))
           ELSE NaN

\* Number(v)
ToNumber(v) ==
  CASE v.t = "num" -> Finite(v.n)
    [] v.t = "str" -> ParseNumber(v.s)
    [] v.t = "null" -> Finite(0)
    [] v.t = "bool" -> Finite(v.n)
    [] v.t = "arr" -> ParseNumber(ArrayToStr(v.items))
    [] OTHER -> NaN

\* comparisons of numbers: any comparison with NaN is false
NumGT(x, y) == ~x.nan /\ ~y.nan /\ x.n > y.n
NumLT(x, y) == ~x.nan /\ ~y.nan /\ x.n < y.n
NumGE(x, y) == ~x.nan /\ ~y.nan /\ x.n >= y.n
NumLE(x, y) == ~x.nan /\ ~y.nan /\ x.n <= y.n

\* rank of a character in the collation order: digits, then letters, lower case first
CharRank(c) ==
  CASE c = " " -> 0 [] c = "-" -> 1
    [] c = "0" -> 10 [] c = "1" -> 11 [] c = "2" -> 12 [] c = "3" -> 13
    [] c = "4" -> 14 [] c = "5" -> 15 [] c = "6" -> 16 [] c = "7" -> 17
    [] c = "8" -> 18 [] c = "9" -> 19
    [] c = "a" -> 20 [] c = "A" -> 21 [] c = "b" -> 22 [] c = "B" -> 23
    [] c = "d" -> 24 [] c = "e" -> 25 [] c = "f" -> 26 [] c = "i" -> 27
    [] c = "l" -> 28 [] c = "n" -> 29 [] c = "u" -> 30
    [] c = "x" -> 31 [] c = "X" -> 32 [] c = "y" -> 33 [] c = "Y" -> 34
    [] OTHER -> 40

\* s.localeCompare(t), as a sign
RECURSIVE LocaleCompare(_, _)
LocaleCompare(cs, ct) ==
  IF cs = <<>> /\ ct = <<>> THEN 0
  ELSE IF cs = <<>> THEN -1
  ELSE IF ct = <<>> THEN 1
  ELSE IF CharRank(Head(cs)) < CharRank(Head(ct)) THEN -1
  ELSE IF CharRank(Head(cs)) > CharRank(Head(ct)) THEN 1
  ELSE LocaleCompare(Tail(cs), Tail(ct))


(***************************************************************************)
(* Filter Engine.  A filter entry is [key, value, operator].               *)
(***************************************************************************)
GetDefaultOperator(filterType) ==
  IF filterType \in {"number", "date", "boolean"} THEN "equals" ELSE "contains"

\* a filter that cannot be applied excludes every row
FilterFailsClosed == FALSE

\* return true: a filter that cannot be applied excludes no row
FilterFailsOpen == TRUE

\* the text operators of the switch, on lower-cased strings
TextMatches(operator, sv, sf) ==
  CASE operator = "equals" -> sv = sf
    [] operator = "notEquals" -> sv # sf
    [] operator = "contains" -> Includes(sv, sf)
    [] operator = "notContains" -> ~Includes(sv, sf)
    [] operator = "startsWith" -> StartsWith(sv, sf)
    [] OTHER -> EndsWith(sv, sf)

\* the number operators of the switch
NumberMatches(operator, nv, nf) ==
  CASE operator = "greaterThan" -> NumGT(nv, nf)
    [] operator = "lessThan" -> NumLT(nv, nf)
    [] operator = "greaterThanOrEqual" -> NumGE(nv, nf)
    [] OTHER -> NumLE(nv, nf)

\* 'between': the bounds are the two numbers of the filter's array
Between(nv, bounds) == NumGE(nv, bounds[1]) /\ NumLE(nv, bounds[2])

\* the cases of the switch, on the cell's lower-cased string and its number
FilterMatches(filter, sv, nv) ==
  CASE filter.operator \in {"equals", "notEquals", "contains", "notContains",
                            "startsWith", "endsWith"} ->
         TextMatches(filter.operator, sv, ToLower(StringOf(filter.value)))
    [] filter.operator \in {"greaterThan", "lessThan", "greaterThanOrEqual",
                            "lessThanOrEqual"} ->
         NumberMatches(filter.operator, nv, ToNumber(filter.value))
    [] filter.operator = "between" ->
         IF IsArray(filter.value) /\ Len(filter.value.items) = 2
         THEN Between(nv, [i \in 1..2 |-> ToNumber(filter.value.items[i])])
         ELSE FilterFailsOpen
    [] filter.operator = "inList" ->
         IF IsArray(filter.value)
         THEN \E i \in 1..Len(filter.value.items) :
                sv = ToLower(StringOf(filter.value.items[i]))
         ELSE FilterFailsOpen
    [] OTHER -> FilterFailsOpen

ApplyFilterToRow(row, filter) ==
  FilterMatches(filter, ToLower(ToStr(Field(row, filter.key))),
                ToNumber(Field(row, filter.key)))

\* data.filter(pred): the subsequence of the rows that satisfy pred, in order
RECURSIVE SelectRows(_, _)
SelectRows(rows, keep) ==
  IF rows = <<>> THEN <<>>
  ELSE IF Head(rows) \in keep THEN <<Head(rows)>> \o SelectRows(Tail(rows), keep)
       ELSE SelectRows(Tail(rows), keep)

RowPassesSome(row, activeFilters) ==
  \E i \in 1..Len(activeFilters) : ApplyFilterToRow(row, activeFilters[i])

RowPasses(row, activeFilters) ==
  \A i \in 1..Len(activeFilters) : ApplyFilterToRow(row, activeFilters[i])

ApplyFiltering(rows, activeFilters) ==
  IF Len(activeFilters) = 0 THEN rows
  ELSE SelectRows(rows, {r \in {rows[i] : i \in 1..Len(rows)} : RowPasses(r, activeFilters)})

(***************************************************************************)
(* Computed-Column Evaluator.                                              *)
(***************************************************************************)
EvaluateCondition(row, condition) ==
  LET sourceValue == Field(row, condition.sourceColumn)
      sv == ToLower(ToStr(sourceValue))
      sc == ToLower(condition.compareValue)
      nv == ToNumber(sourceValue)
      nc == ParseNumber(condition.compareValue)
      empty == IsNullish(sourceValue) \/ sourceValue = Str(<<>>)
  IN  CASE condition.operator = "equals" -> sv = sc
        [] condition.operator = "notEquals" -> sv # sc
        [] condition.operator = "contains" -> Includes(sv, sc)
        [] condition.operator = "notContains" -> ~Includes(sv, sc)
        [] condition.operator = "greaterThan" -> NumGT(nv, nc)
        [] condition.operator = "lessThan" -> NumLT(nv, nc)
        [] condition.operator = "greaterThanOrEqual" -> NumGE(nv, nc)
        [] condition.operator = "lessThanOrEqual" -> NumLE(nv, nc)
        [] condition.operator = "isEmpty" -> empty
        [] condition.operator = "isNotEmpty" -> ~empty
        [] OTHER -> FALSE

ComputeColumnValueLast(row, columnDef) ==
  LET holds == {i \in 1..Len(columnDef.conditions) :
                  EvaluateCondition(row, columnDef.conditions[i])}
  IN  IF holds # {}
      THEN columnDef.conditions[CHOOSE i \in holds : \A j \in holds : i >= j].thenValue
      ELSE IF columnDef.defaultValue # <<>> THEN columnDef.defaultValue
      ELSE IF Len(columnDef.conditions) > 0 THEN columnDef.conditions[1].elseValue
      ELSE <<>>

ComputeColumnValue(row, columnDef) ==
  LET holds == {i \in 1..Len(columnDef.conditions) :
                  EvaluateCondition(row, columnDef.conditions[i])}
  IN  IF holds # {}
      THEN columnDef.conditions[CHOOSE i \in holds : \A j \in holds : i <= j].thenValue
      ELSE IF columnDef.defaultValue # <<>> THEN columnDef.defaultValue
      ELSE IF Len(columnDef.conditions) > 0 THEN columnDef.conditions[1].elseValue
      ELSE <<>>

(***************************************************************************)
(* Sort Engine.  A sort entry is [key, direction, order]; a column is      *)
(* [key, sortable, filterType, comparator, isComputed].                    *)
(***************************************************************************)
DefaultCompare(a, b) ==
  IF a = b THEN 0
  ELSE IF IsNullish(a) THEN 1
  ELSE IF IsNullish(b) THEN -1
  ELSE IF a.t = "num" /\ b.t = "num" THEN a.n - b.n
  ELSE LocaleCompare(ToStr(a), ToStr(b))

\* The comparators a caller may attach to a column: "numeric" compares the
\* rows' ids and ignores the direction; "directed" compares the ids and
\* honours the direction it is handed.
SortComparator(kind, a, b, direction) ==
  LET d == Field(a, "id").n - Field(b, "id").n
  IN  IF kind = "directed" /\ direction = "desc" THEN -d ELSE d

NoColumn == [key |-> "", sortable |-> FALSE, filterType |-> "text",
             comparator |-> "none", isComputed |-> FALSE]

\* columns.find((c) => c.key === key)
FindColumn(columns, key) ==
  LET hits == {i \in 1..Len(columns) : columns[i].key = key}
  IN  IF hits = {} THEN NoColumn
      ELSE columns[CHOOSE i \in hits : \A j \in hits : i <= j]

\* activeSorts.sort((x, y) => x.order - y.order)
RECURSIVE SortByOrder(_)
SortByOrder(sorts) ==
  IF sorts = <<>> THEN <<>>
  ELSE LET n == Len(sorts)
           acc == SortByOrder(SubSeq(sorts, 1, n - 1))
           x == sorts[n]
           after == {i \in 1..Len(acc) : acc[i].order > x.order}
       IN  IF after = {} THEN Append(acc, x)
           ELSE LET k == CHOOSE i \in after : \A j \in after : i <= j
                IN  SubSeq(acc, 1, k - 1) \o <<x>> \o SubSeq(acc, k, Len(acc))

\* one sort entry's comparison of two rows, the direction applied
EntryCompare(a, b, sort, columns) ==
  LET column == FindColumn(columns, sort.key)
      comparison == IF column.comparator # "none"
                    THEN SortComparator(column.comparator, a, b, sort.direction)
                    ELSE DefaultCompare(Field(a, sort.key), Field(b, sort.key))
  IN  IF sort.direction = "desc" THEN -comparison ELSE comparison

\* the comparator handed to Array.prototype.sort
RECURSIVE RowCompare(_, _, _, _)
RowCompare(a, b, ordered, columns) ==
  IF ordered = <<>> THEN 0
  ELSE LET c == EntryCompare(a, b, Head(ordered), columns)
       IN  IF c # 0 THEN c ELSE RowCompare(a, b, Tail(ordered), columns)

\* whether the comparator is a consistent comparison function for these rows
ConsistentComparator(rows, ordered, columns) ==
  LET n == Len(rows)
      cmp == [i \in 1..n |->
                [j \in 1..n |-> Sign(RowCompare(rows[i], rows[j], ordered, columns))]]
  IN  /\ \A i, j \in 1..n : cmp[i][j] = -cmp[j][i]
      /\ \A i, j, k \in 1..n :
            (cmp[i][j] <= 0 /\ cmp[j][k] <= 0) => cmp[i][k] <= 0

RowPermutations(rows) ==
  LET n == Len(rows)
      P == {p \in [1..n -> 1..n] : \A i, j \in 1..n : p[i] = p[j] => i = j}
  IN  {[i \in 1..n |-> rows[p[i]]] : p \in P}

\* a stable sort under a consistent comparator
RECURSIVE StableSort(_, _, _)
StableSort(rows, ordered, columns) ==
  IF rows = <<>> THEN <<>>
  ELSE LET n == Len(rows)
           acc == StableSort(SubSeq(rows, 1, n - 1), ordered, columns)
           x == rows[n]
           after == {i \in 1..Len(acc) : RowCompare(acc[i], x, ordered, columns) > 0}
       IN  IF after = {} THEN Append(acc, x)
           ELSE LET k == CHOOSE i \in after : \A j \in after : i <= j
                IN  SubSeq(acc, 1, k - 1) \o <<x>> \o SubSeq(acc, k, Len(acc))

\* The set of sequences applySorting may return: one sequence under a
\* consistent comparator; with an inconsistent one the order is
\* implementation-defined, any permutation.
ApplySorting(rows, activeSorts, columns) ==
  IF Len(activeSorts) = 0 THEN {rows}
  ELSE LET ordered == SortByOrder(activeSorts)
       IN  IF ConsistentComparator(rows, ordered, columns)
           THEN {StableSort(rows, ordered, columns)}
           ELSE RowPermutations(rows)

(***************************************************************************)
(* Pagination Engine.                                                      *)
(***************************************************************************)
CeilDiv(x, y) == (x + y - 1) \div y

ComputeTotalPages(totalItems, pageSize) == CeilDiv(totalItems, pageSize)

Min(x, y) == IF x < y THEN x ELSE y
Max(x, y) == IF x > y THEN x ELSE y

\* rows.slice(start, end) for 0 <= start
Slice(rows, start, end) ==
  SubSeq(rows, Min(start, Len(rows)) + 1, Min(end, Len(rows)))

ApplyPaginationFromZero(rows, currentPage, pageSize, enablePagination) ==
  IF ~enablePagination THEN rows
  ELSE Slice(rows, currentPage * pageSize, currentPage * pageSize + pageSize)

ApplyPagination(rows, currentPage, pageSize, enablePagination) ==
  IF ~enablePagination THEN rows
  ELSE LET start == (currentPage - 1) * pageSize
           end == start + pageSize
       IN  Slice(rows, start, end)

(***************************************************************************)
(* Virtualization Windower.                                                *)
(***************************************************************************)
GetVirtualScrollConfig(config) ==
  [enabled |-> config.enableVirtualScroll,
   itemHeight |-> config.virtualScrollItemHeight,
   bufferSize |-> config.virtualScrollBufferSize,
   containerHeight |-> config.tableHeight]

ComputeVirtualScrollDataOneBuffer(rows, paginatedRows, scrollPos, vconfig) ==
  IF ~vconfig.enabled
  THEN [visibleData |-> paginatedRows,
        startIndex |-> 0,
        endIndex |-> Len(paginatedRows),
        offsetY |-> 0,
        totalHeight |-> Len(paginatedRows) * vconfig.itemHeight]
  ELSE LET startIndex == Max(0, (scrollPos \div vconfig.itemHeight) - vconfig.bufferSize)
           visibleCount == CeilDiv(vconfig.containerHeight, vconfig.itemHeight)
                             + vconfig.bufferSize
           endIndex == Min(Len(rows), startIndex + visibleCount)
       IN  [visibleData |-> Slice(rows, startIndex, endIndex),
            startIndex |-> startIndex,
            endIndex |-> endIndex,
            offsetY |-> startIndex * vconfig.itemHeight,
            totalHeight |-> Len(rows) * vconfig.itemHeight]

ComputeVirtualScrollData(rows, paginatedRows, scrollPos, vconfig) ==
  IF ~vconfig.enabled
  THEN [visibleData |-> paginatedRows,
        startIndex |-> 0,
        endIndex |-> Len(paginatedRows),
        offsetY |-> 0,
        totalHeight |-> Len(paginatedRows) * vconfig.itemHeight]
  ELSE LET startIndex == Max(0, (scrollPos \div vconfig.itemHeight) - vconfig.bufferSize)
           visibleCount == CeilDiv(vconfig.containerHeight, vconfig.itemHeight)
                             + vconfig.bufferSize * 2
           endIndex == Min(Len(rows), startIndex + visibleCount)
       IN  [visibleData |-> Slice(rows, startIndex, endIndex),
            startIndex |-> startIndex,
            endIndex |-> endIndex,
            offsetY |-> startIndex * vconfig.itemHeight,
            totalHeight |-> Len(rows) * vconfig.itemHeight]

(***************************************************************************)
(* Selection Tracker.                                                      *)
(***************************************************************************)
RowKey(row, config) == Field(row, config.rowKeyField)

PageKeys(rows, config) == {RowKey(rows[i], config) : i \in 1..Len(rows)}

ComputeAllSelected(paginatedRows, selected, config) ==
  /\ Len(paginatedRows) > 0
  /\ \A i \in 1..Len(paginatedRows) : RowKey(paginatedRows[i], config) \in selected

ComputeSomeSelected(paginatedRows, selected, config) ==
  LET selectedCount == Cardinality({i \in 1..Len(paginatedRows) :
                                      RowKey(paginatedRows[i], config) \in selected})
  IN  selectedCount > 0 /\ selectedCount < Len(paginatedRows)


(***************************************************************************)
(* The table instance.                                                     *)
(***************************************************************************)
VARIABLES
  data,            \* input: the raw rows
  config,          \* input: the merged configuration
  filters,         \* filteringState.filters
  filterInputs,    \* filteringState.filterInputs
  sorts,           \* sortingState.sorts
  currentPage,     \* paginationState.currentPage
  pageSize,        \* paginationState.pageSize
  selectedRows,    \* selectionState.selectedRows
  scrollTop,       \* virtualScrollState.scrollTop
  pendingEffects,  \* the effects scheduled and not yet run
  view,            \* the memoized derived stages
  lastOp,          \* the last handler run, the page it found, the events it emitted
  call,            \* a call of one of the pure engines: its arguments and result
  columns,                  \* input: the base columns
  columnOrder,              \* reorderState.columnOrder
  draggedColumn,            \* reorderState.draggedColumn
  dropTargetColumn,         \* reorderState.dropTargetColumn
  computedColumns,          \* computedColumnsState.computedColumns
  computedColumnModalOpen,  \* computedColumnsState.modalOpen
  editingComputedColumn,    \* computedColumnsState.editingColumn
  currentComputedColumn,    \* the definition the modal edits
  conditionObjects,         \* the condition objects allocated so far, by address
  generated,                \* how many keys, ids and objects were generated so far
  rowColors,                \* coloringState.rowColors
  columnColors,             \* coloringState.columnColors
  cellColors,               \* coloringState.cellColors
  activeColorPicker,        \* coloringState.activeColorPicker
  frozenColumns,            \* columnFreezeState.frozenColumns
  columnWidths,             \* resizeState.columnWidths
  resizingColumn,           \* resizeState.resizingColumn
  resizeStartX,             \* resizeState.resizeStartX
  resizeStartWidth          \* resizeState.resizeStartWidth

reorderVars == <<columnOrder, draggedColumn, dropTargetColumn>>

columnVars == <<columns, reorderVars, computedColumns, computedColumnModalOpen,
                editingComputedColumn, currentComputedColumn, conditionObjects, generated>>

colorVars == <<rowColors, columnColors, cellColors, activeColorPicker>>

layoutVars == <<frozenColumns, columnWidths, resizingColumn, resizeStartX, resizeStartWidth>>

featureVars == <<columnVars, colorVars, layoutVars>>

vars == <<data, config, filters, filterInputs, sorts, currentPage, pageSize,
          selectedRows, scrollTop, pendingEffects, view, lastOp, call, featureVars>>

tableVars == <<data, config, filters, filterInputs, sorts, currentPage, pageSize,
               selectedRows, scrollTop, pendingEffects, view, lastOp, featureVars>>

\* the columns input of the table
Columns ==
  << [key |-> "id", order |-> 0, sortable |-> TRUE, filterType |-> "number",
      comparator |-> "none", isComputed |-> FALSE],
     [key |-> "a", order |-> 1, sortable |-> TRUE, filterType |-> "number",
      comparator |-> "none", isComputed |-> FALSE],
     [key |-> "b", order |-> 2, sortable |-> TRUE, filterType |-> "text",
      comparator |-> "none", isComputed |-> FALSE],
     [key |-> "n", order |-> 3, sortable |-> FALSE, filterType |-> "text",
      comparator |-> "none", isComputed |-> FALSE] >>

ColumnKeys == {Columns[i].key : i \in 1..Len(Columns)}

\* the rows the data input is drawn from
RowAt(i) ==
  [id |-> Num(i),
   a |-> Num(IF i % 2 = 1 THEN 2 ELSE 1),
   b |-> Str(CASE i % 3 = 1 -> <<"x">> [] i % 3 = 2 -> <<"X", "y">> [] OTHER -> <<"y">>),
   n |-> Null]

DataOfSize(k) == [i \in 1..k |-> RowAt(i)]

\* DEFAULT_TABLE_CONFIG merged with the config input
BaseConfig ==
  [enableMultiSort |-> TRUE,
   enablePagination |-> TRUE,
   enableRowSelection |-> TRUE,
   enableColumnReorder |-> TRUE,
   enableVirtualScroll |-> FALSE,
   virtualScrollItemHeight |-> 2,
   virtualScrollBufferSize |-> 1,
   pageSize |-> 1,
   selectionMode |-> "multiple",
   showSelectionCheckbox |-> TRUE,
   rowKeyField |-> "id",
   tableHeight |-> 2]

NoCall == [op |-> "none", done |-> FALSE]

\* the derived stages, as the computed signals of the table define them
DerivedViewSortAfterPaging(d, f, s, page, size, scroll, cfg) ==
  LET filtered == ApplyFiltering(d, f)
      paged == ApplyPagination(filtered, page, size, cfg.enablePagination)
  IN  { [filteredData |-> filtered,
         sortedData |-> sortedPage,
         paginatedData |-> sortedPage,
         virtualScrollData |->
           ComputeVirtualScrollData(sortedPage, sortedPage, scroll,
                                    GetVirtualScrollConfig(cfg)),
         totalItems |-> Len(filtered)] : sortedPage \in ApplySorting(paged, s, Columns) }

DerivedView(d, f, s, page, size, scroll, cfg) ==
  LET filtered == ApplyFiltering(d, f)
  IN  { [filteredData |-> filtered,
         sortedData |-> sorted,
         paginatedData |-> ApplyPagination(sorted, page, size, cfg.enablePagination),
         virtualScrollData |->
           ComputeVirtualScrollData(
             sorted,
             ApplyPagination(sorted, page, size, cfg.enablePagination),
             scroll,
             GetVirtualScrollConfig(cfg)),
         totalItems |-> Len(filtered)] : sorted \in ApplySorting(filtered, s, Columns) }

TotalPages == ComputeTotalPages(view.totalItems, pageSize)

\* every reader sees the stages recomputed from the signals as they now are
Recompute ==
  view' \in DerivedView(data', filters', sorts', currentPage', pageSize', scrollTop', config')

Idle == pendingEffects = {}

\* the record a handler leaves: its name, the page it found, the events it emitted
Ran(op, events) == [op |-> op, pageBefore |-> currentPage, events |-> events]

(***************************************************************************)
(* Computed-column definitions.  A definition is [key, title, conditions,  *)
(* defaultValue]; its conditions are the addresses of condition objects,   *)
(* so that two definitions can share an object as two JavaScript arrays    *)
(* do.  The n-th generated key or id is told from every other one          *)
(* (Date.now() and Math.random()).                                         *)
(***************************************************************************)
GenerateColumnKey(n) ==
  CASE n = 1 -> "computed_1" [] n = 2 -> "computed_2" [] n = 3 -> "computed_3"
    [] n = 4 -> "computed_4" [] n = 5 -> "computed_5" [] n = 6 -> "computed_6"
    [] n = 7 -> "computed_7" [] n = 8 -> "computed_8" [] OTHER -> "computed_9"

GenerateConditionId(n) == n

CreateEmptyCondition(n) ==
  [id |-> GenerateConditionId(n), sourceColumn |-> <<>>, operator |-> "equals",
   compareValue |-> <<>>, thenValue |-> <<>>, elseValue |-> <<>>]

\* createEmptyComputedColumn when g keys and ids were generated before: the
\* key is generated first, then the condition, kept at address g + 2
CreateEmptyComputedColumn(g) ==
  [key |-> GenerateColumnKey(g + 1), title |-> <<>>, conditions |-> <<g + 2>>,
   defaultValue |-> <<>>]

\* a definition as a reader sees it: its conditions read through their addresses
Definition(def, objects) ==
  [def EXCEPT !.conditions = [i \in 1..Len(def.conditions) |-> objects[def.conditions[i]]]]

(***************************************************************************)
(* Column Reorder: the order state.                                        *)
(***************************************************************************)
\* [...columns].sort(compare) for a consistent compare, compare[i][j] being
\* its result on the i-th and j-th column: stable
SortedColumns(cols, compare) ==
  LET n == Len(cols)
      place == CHOOSE f \in [1..n -> 1..n] :
                 /\ \A i, j \in 1..n : i # j => f[i] # f[j]
                 /\ \A i, j \in 1..n : i < j =>
                      \/ compare[f[i]][f[j]] < 0
                      \/ compare[f[i]][f[j]] = 0 /\ f[i] < f[j]
  IN  [i \in 1..n |-> cols[place[i]]]

\* (a, b) => a.order - b.order on every pair of the columns
CompareStaticOrder(cols) ==
  [i \in 1..Len(cols) |-> [j \in 1..Len(cols) |-> cols[i].order - cols[j].order]]

InitializeColumnOrderAlways(cols, order) ==
  IF Len(cols) > 0
  THEN LET sorted == SortedColumns(cols, CompareStaticOrder(cols))
       IN  [i \in 1..Len(sorted) |-> sorted[i].key]
  ELSE order

\* initializeColumnOrder: the value columnOrder holds afterwards
InitializeColumnOrder(cols, order) ==
  IF Len(order) = 0 /\ Len(cols) > 0
  THEN LET sorted == SortedColumns(cols, CompareStaticOrder(cols))
       IN  [i \in 1..Len(sorted) |-> sorted[i].key]
  ELSE order

\* the feature states after construction
InitFeatures(cols) ==
  /\ columns = cols
  /\ columnOrder = <<>>
  /\ draggedColumn = <<>>
  /\ dropTargetColumn = <<>>
  /\ computedColumns = <<>>
  /\ computedColumnModalOpen = FALSE
  /\ editingComputedColumn = <<>>
  /\ currentComputedColumn = CreateEmptyComputedColumn(0)
  /\ conditionObjects = [a \in {2} |-> CreateEmptyCondition(2)]
  /\ generated = 2
  /\ rowColors = <<>>
  /\ columnColors = <<>>
  /\ cellColors = <<>>
  /\ activeColorPicker = <<>>
  /\ frozenColumns = <<>>
  /\ columnWidths = <<>>
  /\ resizingColumn = <<>>
  /\ resizeStartX = 0
  /\ resizeStartWidth = 0

InitTableWith(cfgs, cols) ==
  /\ InitFeatures(cols)
  /\ data \in {DataOfSize(k) : k \in 0..MaxRows}
  /\ config \in cfgs
  /\ filters = <<>>
  /\ filterInputs = <<>>
  /\ sorts = <<>>
  /\ currentPage = 1
  /\ pageSize = DefaultPageSize
  /\ selectedRows = {}
  /\ scrollTop = 0
  /\ pendingEffects = {"pageSize", "filters", "columnOrder"}
  /\ view \in DerivedView(data, filters, sorts, currentPage, pageSize, scrollTop, config)
  /\ lastOp = [op |-> "init", pageBefore |-> 1, events |-> {}]

InitTable(cfgs) == InitTableWith(cfgs, Columns)

(***************************************************************************)
(* Effects.                                                                *)
(***************************************************************************)
\* resetPagination: the value currentPage is set to
ResetPaginationKeep(page) == page

ResetPagination(page) == 1

\* the constructor's effects, run in the order they were created
FlushEffects ==
  /\ pendingEffects # {}
  /\ pageSize' = IF "pageSize" \in pendingEffects /\ config.pageSize # 0
                 THEN config.pageSize ELSE pageSize
  /\ currentPage' = IF "filters" \in pendingEffects
                    THEN ResetPagination(currentPage) ELSE currentPage
  /\ columnOrder' = IF "columnOrder" \in pendingEffects
                    THEN InitializeColumnOrder(columns, columnOrder) ELSE columnOrder
  /\ pendingEffects' = {}
  /\ UNCHANGED <<data, config, filters, filterInputs, sorts, selectedRows, scrollTop,
                 lastOp, call>>
  /\ UNCHANGED <<columns, draggedColumn, dropTargetColumn, computedColumns,
                 computedColumnModalOpen, editingComputedColumn, currentComputedColumn,
                 conditionObjects, generated, colorVars,
                 layoutVars>>
  /\ Recompute

(***************************************************************************)
(* Inputs.                                                                 *)
(***************************************************************************)
SetData(k) ==
  /\ Idle
  /\ data' = DataOfSize(k)
  /\ data' # data
  /\ lastOp' = Ran("setData", {})
  /\ UNCHANGED <<config, filters, filterInputs, sorts, currentPage, pageSize,
                 selectedRows, scrollTop, pendingEffects, call>>
  /\ UNCHANGED featureVars
  /\ Recompute

SetConfigPageSize(size) ==
  /\ Idle
  /\ config' = [config EXCEPT !.pageSize = size]
  /\ config' # config
  /\ pendingEffects' = pendingEffects \cup {"pageSize"}
  /\ lastOp' = Ran("setConfigPageSize", {})
  /\ UNCHANGED <<data, filters, filterInputs, sorts, currentPage, pageSize,
                 selectedRows, scrollTop, call>>
  /\ UNCHANGED featureVars
  /\ Recompute

(***************************************************************************)
(* Filtering handlers.                                                     *)
(***************************************************************************)
MapSet(m, k, v) == [x \in (DOMAIN m) \cup {k} |-> IF x = k THEN v ELSE m[x]]
MapDelete(m, k) == [x \in (DOMAIN m) \ {k} |-> m[x]]

WithoutKeyKeepAll(entries, key) == entries

WithoutKey(entries, key) ==
  LET Other(f) == f.key # key
  IN  SelectSeq(entries, Other)

HandleFilterInput(column, value) ==
  /\ Idle
  /\ filterInputs' = MapSet(filterInputs, column.key, value)
  /\ filters' = IF Trim(value) # <<>>
                THEN Append(WithoutKey(filters, column.key),
                            [key |-> column.key,
                             value |-> Str(Trim(value)),
                             operator |-> GetDefaultOperator(column.filterType)])
                ELSE WithoutKey(filters, column.key)
  /\ pendingEffects' = pendingEffects \cup {"filters"}
  /\ lastOp' = Ran("handleFilterInput", {"filterChange"})
  /\ UNCHANGED <<data, config, sorts, currentPage, pageSize, selectedRows, scrollTop, call>>
  /\ UNCHANGED featureVars
  /\ Recompute

ClearFilter(key) ==
  /\ Idle
  /\ filterInputs' = MapDelete(filterInputs, key)
  /\ filters' = WithoutKey(filters, key)
  /\ pendingEffects' = pendingEffects \cup {"filters"}
  /\ lastOp' = Ran("clearFilter", {"filterChange"})
  /\ UNCHANGED <<data, config, sorts, currentPage, pageSize, selectedRows, scrollTop, call>>
  /\ UNCHANGED featureVars
  /\ Recompute

ClearAllFilters ==
  /\ Idle
  /\ filterInputs' = <<>>
  /\ filters' = <<>>
  /\ pendingEffects' = pendingEffects \cup {"filters"}
  /\ lastOp' = Ran("clearAllFilters", {"filterChange"})
  /\ UNCHANGED <<data, config, sorts, currentPage, pageSize, selectedRows, scrollTop, call>>
  /\ UNCHANGED featureVars
  /\ Recompute

\* the public resetFilters
ResetFilters ==
  /\ Idle
  /\ filterInputs' = <<>>
  /\ filters' = <<>>
  /\ pendingEffects' = pendingEffects \cup {"filters"}
  /\ lastOp' = Ran("resetFilters", {"filterChange"})
  /\ UNCHANGED <<data, config, sorts, currentPage, pageSize, selectedRows, scrollTop, call>>
  /\ UNCHANGED featureVars
  /\ Recompute

(***************************************************************************)
(* Sorting handlers.                                                       *)
(***************************************************************************)
IndexOfKey(entries, key) ==
  LET hits == {i \in 1..Len(entries) : entries[i].key = key}
  IN  IF hits = {} THEN 0 ELSE CHOOSE i \in hits : \A j \in hits : i <= j

RemoveHead(entries, k) == Tail(entries)

RemoveAt(entries, k) == SubSeq(entries, 1, k - 1) \o SubSeq(entries, k + 1, Len(entries))

RenumberKeep(entries) == entries

Renumber(entries) == [i \in 1..Len(entries) |-> [entries[i] EXCEPT !.order = i]]

\* a click that always takes the modifier branch
ClickedSortsAlwaysMulti(currentSorts, key, multi) ==
  LET existingIndex == IndexOfKey(currentSorts, key)
  IN  IF existingIndex > 0
      THEN IF currentSorts[existingIndex].direction = "asc"
           THEN [currentSorts EXCEPT ![existingIndex].direction = "desc"]
           ELSE Renumber(RemoveAt(currentSorts, existingIndex))
      ELSE Append(currentSorts,
                  [key |-> key, direction |-> "asc", order |-> Len(currentSorts) + 1])

\* the sort list a click on a sortable column leaves
ClickedSorts(currentSorts, key, multi) ==
  LET existingIndex == IndexOfKey(currentSorts, key)
  IN  IF multi
      THEN IF existingIndex > 0
           THEN IF currentSorts[existingIndex].direction = "asc"
                THEN [currentSorts EXCEPT ![existingIndex].direction = "desc"]
                ELSE Renumber(RemoveAt(currentSorts, existingIndex))
           ELSE Append(currentSorts,
                       [key |-> key, direction |-> "asc", order |-> Len(currentSorts) + 1])
      ELSE IF existingIndex > 0 /\ Len(currentSorts) = 1
           THEN IF currentSorts[1].direction = "asc"
                THEN [currentSorts EXCEPT ![1].direction = "desc"]
                ELSE <<>>
           ELSE << [key |-> key, direction |-> "asc", order |-> 1] >>

HandleHeaderClick(column, shiftKey) ==
  /\ Idle
  /\ IF ~column.sortable
     THEN /\ sorts' = sorts
          /\ lastOp' = Ran("handleHeaderClick", {})
     ELSE /\ sorts' = ClickedSorts(sorts, column.key, config.enableMultiSort /\ shiftKey)
          /\ lastOp' = Ran("handleHeaderClick", {"sortChange"})
  /\ UNCHANGED <<data, config, filters, filterInputs, currentPage, pageSize, selectedRows,
                 scrollTop, pendingEffects, call>>
  /\ UNCHANGED featureVars
  /\ Recompute

ResetSort ==
  /\ Idle
  /\ sorts' = <<>>
  /\ lastOp' = Ran("resetSort", {"sortChange"})
  /\ UNCHANGED <<data, config, filters, filterInputs, currentPage, pageSize, selectedRows,
                 scrollTop, pendingEffects, call>>
  /\ UNCHANGED featureVars
  /\ Recompute

(***************************************************************************)
(* Pagination handlers.  A page argument is a number or a string (the      *)
(* ellipsis entry of the page list).                                       *)
(***************************************************************************)
PageNumber(k) == [isString |-> FALSE, n |-> k]
PageEllipsis == [isString |-> TRUE, n |-> 0]

GoToPageAcceptsNumbers(page, totalItems, size) == ~page.isString

\* whether goToPage(page) moves the cursor
GoToPageAccepts(page, totalItems, size) ==
  /\ ~page.isString
  /\ ~(page.n < 1 \/ page.n > ComputeTotalPages(totalItems, size))

GoToPageBody(page, op) ==
  IF GoToPageAccepts(page, view.totalItems, pageSize)
  THEN /\ currentPage' = page.n
       /\ lastOp' = Ran(op, {"pageChange"})
  ELSE /\ currentPage' = currentPage
       /\ lastOp' = Ran(op, {})

GoToPage(page) ==
  /\ Idle
  /\ GoToPageBody(page, "goToPage")
  /\ UNCHANGED <<data, config, filters, filterInputs, sorts, pageSize, selectedRows,
                 scrollTop, pendingEffects, call>>
  /\ UNCHANGED featureVars
  /\ Recompute

ChangePageSize(size) ==
  /\ Idle
  /\ pageSize' = size
  /\ currentPage' = 1
  /\ lastOp' = Ran("changePageSize", {"pageChange"})
  /\ UNCHANGED <<data, config, filters, filterInputs, sorts, selectedRows, scrollTop,
                 pendingEffects, call>>
  /\ UNCHANGED featureVars
  /\ Recompute

GoToPreviousPage ==
  /\ Idle
  /\ IF currentPage > 1
     THEN GoToPageBody(PageNumber(currentPage - 1), "goToPreviousPage")
     ELSE /\ currentPage' = currentPage
          /\ lastOp' = Ran("goToPreviousPage", {})
  /\ UNCHANGED <<data, config, filters, filterInputs, sorts, pageSize, selectedRows,
                 scrollTop, pendingEffects, call>>
  /\ UNCHANGED featureVars
  /\ Recompute

GoToNextPage ==
  /\ Idle
  /\ IF currentPage < ComputeTotalPages(view.totalItems, pageSize)
     THEN GoToPageBody(PageNumber(currentPage + 1), "goToNextPage")
     ELSE /\ currentPage' = currentPage
          /\ lastOp' = Ran("goToNextPage", {})
  /\ UNCHANGED <<data, config, filters, filterInputs, sorts, pageSize, selectedRows,
                 scrollTop, pendingEffects, call>>
  /\ UNCHANGED featureVars
  /\ Recompute

(***************************************************************************)
(* Virtual scroll handler.                                                 *)
(***************************************************************************)
HandleScroll(pos) ==
  /\ Idle
  /\ scrollTop' = pos
  /\ lastOp' = Ran("handleScroll", {})
  /\ UNCHANGED <<data, config, filters, filterInputs, sorts, currentPage, pageSize,
                 selectedRows, pendingEffects, call>>
  /\ UNCHANGED featureVars
  /\ Recompute

(***************************************************************************)
(* Selection handlers.                                                     *)
(***************************************************************************)
ToggledSelection(selected, key, mode) ==
  IF mode = "single"
  THEN IF key \in selected THEN {} ELSE {key}
  ELSE IF key \in selected THEN selected \ {key} ELSE selected \cup {key}

ToggleRowSelection(row) ==
  /\ Idle
  /\ IF ~config.enableRowSelection
     THEN /\ selectedRows' = selectedRows
          /\ lastOp' = Ran("toggleRowSelection", {})
     ELSE /\ selectedRows' = ToggledSelection(selectedRows, RowKey(row, config),
                                              config.selectionMode)
          /\ lastOp' = Ran("toggleRowSelection", {"selectionChange"})
  /\ UNCHANGED <<data, config, filters, filterInputs, sorts, currentPage, pageSize,
                 scrollTop, pendingEffects, call>>
  /\ UNCHANGED featureVars
  /\ Recompute

\* a toggle that replaces the selection by the page's keys, or empties it
ToggledAllReplacing(selected, paginatedRows, allSelected, cfg) ==
  IF allSelected THEN {} ELSE PageKeys(paginatedRows, cfg)

\* the selection toggleAllSelection leaves
ToggledAll(selected, paginatedRows, allSelected, cfg) ==
  IF allSelected
  THEN selected \ PageKeys(paginatedRows, cfg)
  ELSE selected \cup PageKeys(paginatedRows, cfg)

ToggleAllSelection ==
  /\ Idle
  /\ selectedRows' =
       ToggledAll(selectedRows, view.paginatedData,
                  ComputeAllSelected(view.paginatedData, selectedRows, config), config)
  /\ lastOp' = Ran("toggleAllSelection", {"selectionChange"})
  /\ UNCHANGED <<data, config, filters, filterInputs, sorts, currentPage, pageSize,
                 scrollTop, pendingEffects, call>>
  /\ UNCHANGED featureVars
  /\ Recompute

ClearSelection ==
  /\ Idle
  /\ selectedRows' = {}
  /\ lastOp' = Ran("clearSelection", {"selectionChange"})
  /\ UNCHANGED <<data, config, filters, filterInputs, sorts, currentPage, pageSize,
                 scrollTop, pendingEffects, call>>
  /\ UNCHANGED featureVars
  /\ Recompute

\* resetAll without its clearSelection
ResetAllKeepsSelection ==
  /\ selectedRows' = selectedRows
  /\ sorts' = <<>>
  /\ filterInputs' = <<>>
  /\ filters' = <<>>
  /\ pendingEffects' = pendingEffects \cup {"filters"}
  /\ currentPage' = ResetPagination(currentPage)
  /\ lastOp' = Ran("resetAll", {"sortChange", "filterChange"})
  /\ rowColors' = <<>>
  /\ columnColors' = <<>>
  /\ cellColors' = <<>>
  /\ UNCHANGED <<data, config, pageSize, scrollTop, call, columnVars, layoutVars, activeColorPicker>>
  /\ Recompute

(***************************************************************************)
(* resetAll: clearSelection, resetSort, resetFilters, resetPagination,     *)
(* clearAllTableColors.                                                    *)
(***************************************************************************)
ResetAllBody ==
  /\ selectedRows' = {}
  /\ sorts' = <<>>
  /\ filterInputs' = <<>>
  /\ filters' = <<>>
  /\ pendingEffects' = pendingEffects \cup {"filters"}
  /\ currentPage' = ResetPagination(currentPage)
  /\ lastOp' = Ran("resetAll", {"selectionChange", "sortChange", "filterChange"})
  /\ rowColors' = <<>>
  /\ columnColors' = <<>>
  /\ cellColors' = <<>>
  /\ UNCHANGED <<data, config, pageSize, scrollTop, call, columnVars, layoutVars, activeColorPicker>>
  /\ Recompute

ResetAll == Idle /\ ResetAllBody

(***************************************************************************)
(* The table under its filter, sort and pagination handlers.               *)
(***************************************************************************)
PipelineConfigs == {[BaseConfig EXCEPT !.pageSize = s] : s \in 1..MaxPageSize}

\* the filter boxes a user types into, and what is typed
FilterEntries ==
  { <<Columns[2], <<"1">>>>, <<Columns[3], <<" ", "x">>>>, <<Columns[3], <<" ">>>> }

\* the header clicks: the sortable column a, plain and with shift, and column n
SortClicks == { <<Columns[2], FALSE>>, <<Columns[2], TRUE>>, <<Columns[4], FALSE>> }

Init ==
  /\ InitTable(PipelineConfigs)
  /\ call = NoCall

Next ==
  \/ FlushEffects
  \/ \E k \in 0..MaxRows : SetData(k)
  \/ \E s \in 1..MaxPageSize : SetConfigPageSize(s)
  \/ \E e \in FilterEntries : HandleFilterInput(e[1], e[2])
  \/ \E e \in FilterEntries : ClearFilter(e[1].key)
  \/ ClearAllFilters
  \/ ResetFilters
  \/ \E c \in SortClicks : HandleHeaderClick(c[1], c[2])
  \/ ResetSort
  \/ \E k \in 0..(MaxRows + 1) : GoToPage(PageNumber(k))
  \/ GoToPage(PageEllipsis)
  \/ \E s \in 1..MaxPageSize : ChangePageSize(s)
  \/ GoToPreviousPage
  \/ GoToNextPage
  \/ ResetAll

Spec == Init /\ [][Next]_vars

(***************************************************************************)
(* Properties of the pipeline.                                             *)
(***************************************************************************)
FilterOps == {"handleFilterInput", "clearFilter", "clearAllFilters", "resetFilters"}

\* C1: in every recomputation the filtered rows are applyFiltering of the raw
\* rows, the sorted rows are applySorting of the whole filtered set, the
\* paginated rows are applyPagination of the sorted filtered set (never a sort
\* of an already-paginated slice), and totalItems is the filtered row count.
C1_PipelineOrder ==
  /\ view.filteredData = ApplyFiltering(data, filters)
  /\ view.sortedData \in ApplySorting(ApplyFiltering(data, filters), sorts, Columns)
  /\ view.paginatedData =
       ApplyPagination(view.sortedData, currentPage, pageSize, config.enablePagination)
  /\ view.totalItems = Len(ApplyFiltering(data, filters))

\* a filter that drops a row, a sort that reorders the rest, the second page shown
C1_Witness ==
  /\ Idle
  /\ filters # <<>>
  /\ sorts # <<>>
  /\ Len(view.filteredData) < Len(data)
  /\ view.sortedData # view.filteredData
  /\ currentPage = 2
  /\ view.paginatedData # <<>>
  /\ view.paginatedData # view.sortedData

\* C3: after handleFilterInput, clearFilter, clearAllFilters or resetFilters,
\* once the filter effect has run, currentPage is 1, whatever page was current.
C3_FilterChangeResetsPage ==
  (lastOp.op \in FilterOps /\ Idle) => currentPage = 1

\* a filter operation that found the table on a later page, its effect run
C3_Witness ==
  /\ lastOp.op \in FilterOps
  /\ lastOp.pageBefore > 1
  /\ Idle
  /\ currentPage = 1

\* C4: whenever rows are shown and no effect is pending, currentPage lies in
\* [1, ceil(totalItems / pageSize)].
C4_PageWithinRange ==
  (Idle /\ view.totalItems > 0) =>
    (currentPage >= 1 /\ currentPage <= ComputeTotalPages(view.totalItems, pageSize))

(***************************************************************************)
(* The table with virtual scrolling enabled, under its scroll and page     *)
(* handlers.                                                               *)
(***************************************************************************)
WindowConfigs ==
  {[BaseConfig EXCEPT !.enableVirtualScroll = TRUE, !.pageSize = s] : s \in 1..MaxPageSize}

InitWindow ==
  /\ InitTable(WindowConfigs)
  /\ call = NoCall

NextWindow ==
  \/ FlushEffects
  \/ \E k \in 0..MaxRows : SetData(k)
  \/ \E pos \in 0..MaxScrollTop : HandleScroll(pos)
  \/ \E k \in 0..(MaxRows + 1) : GoToPage(PageNumber(k))
  \/ GoToPreviousPage
  \/ GoToNextPage

SpecWindow == InitWindow /\ [][NextWindow]_vars

\* C2: with pagination and virtual scrolling both enabled, every row of
\* visibleData is a row of the current page, and endIndex and totalHeight
\* are bounded by the length of the current page.
C2_WindowWithinPage ==
  (config.enablePagination /\ config.enableVirtualScroll) =>
    LET window == view.virtualScrollData
        page == view.paginatedData
    IN  /\ \A i \in 1..Len(window.visibleData) :
             \E j \in 1..Len(page) : window.visibleData[i] = page[j]
        /\ window.endIndex <= Len(page)
        /\ window.totalHeight <= Len(page) * config.virtualScrollItemHeight

(***************************************************************************)
(* The table under its selection handlers.                                 *)
(***************************************************************************)
SelectionConfigs ==
  {[BaseConfig EXCEPT !.selectionMode = m, !.enableRowSelection = e, !.pageSize = MaxPageSize] :
     m \in {"single", "multiple"}, e \in BOOLEAN}

InitSelection ==
  /\ InitTable(SelectionConfigs)
  /\ call = NoCall

NextSelection ==
  \/ FlushEffects
  \/ \E i \in 1..Len(view.paginatedData) : ToggleRowSelection(view.paginatedData[i])
  \/ ToggleAllSelection
  \/ ClearSelection
  \/ GoToPreviousPage
  \/ GoToNextPage

SpecSelection == InitSelection /\ [][NextSelection]_vars

\* C5: whenever selectionMode is 'single', the selection set holds at most
\* one row key.
C5_SingleModeAtMostOne ==
  config.selectionMode = "single" => Cardinality(selectedRows) <= 1

(***************************************************************************)
(* The pure engines, called on their own.  The table is at rest; a call    *)
(* record holds the arguments of one call and, once made, its result.      *)
(***************************************************************************)
TableAtRest ==
  /\ columns = Columns
  /\ columnOrder = InitializeColumnOrder(Columns, <<>>)
  /\ draggedColumn = <<>>
  /\ dropTargetColumn = <<>>
  /\ computedColumns = <<>>
  /\ computedColumnModalOpen = FALSE
  /\ editingComputedColumn = <<>>
  /\ currentComputedColumn = CreateEmptyComputedColumn(0)
  /\ conditionObjects = [a \in {2} |-> CreateEmptyCondition(2)]
  /\ generated = 2
  /\ rowColors = <<>>
  /\ columnColors = <<>>
  /\ cellColors = <<>>
  /\ activeColorPicker = <<>>
  /\ frozenColumns = <<>>
  /\ columnWidths = <<>>
  /\ resizingColumn = <<>>
  /\ resizeStartX = 0
  /\ resizeStartWidth = 0
  /\ data = <<>>
  /\ config = BaseConfig
  /\ filters = <<>>
  /\ filterInputs = <<>>
  /\ sorts = <<>>
  /\ currentPage = 1
  /\ pageSize = DefaultPageSize
  /\ selectedRows = {}
  /\ scrollTop = 0
  /\ pendingEffects = {}
  /\ view \in DerivedView(data, filters, sorts, currentPage, pageSize, scrollTop, config)
  /\ lastOp = [op |-> "none", pageBefore |-> 1, events |-> {}]

\* the sequences of length at most n over a set
SeqsUpTo(S, n) == UNION {[1..k -> S] : k \in 0..n}

Reverse(rows) == [i \in 1..Len(rows) |-> rows[Len(rows) + 1 - i]]

(***************************************************************************)
(* applySorting on rows {id, a}: id is the row's position in the input.    *)
(***************************************************************************)
SortValues == {Num(1), Num(2), Str(<<"1">>), Null, Undef}

SortRows ==
  {[i \in 1..Len(vs) |-> [id |-> Num(i), a |-> vs[i]]] : vs \in SeqsUpTo(SortValues, MaxFnRows)}

\* the base columns handed to applySorting: a, and id with the comparator given
SortColumns(comparator) ==
  << [key |-> "a", sortable |-> TRUE, filterType |-> "text",
      comparator |-> "none", isComputed |-> FALSE],
     [key |-> "id", sortable |-> TRUE, filterType |-> "number",
      comparator |-> comparator, isComputed |-> FALSE] >>

\* a computed column of the table: "hi" where a > 1, else "lo"
ComputedColumn ==
  [key |-> "cc",
   conditions |-> << [sourceColumn |-> "a", operator |-> "greaterThan",
                      compareValue |-> <<"1">>, thenValue |-> <<"h", "i">>,
                      elseValue |-> <<"l", "o">>] >>,
   defaultValue |-> <<>>]

Directions == {"asc", "desc"}

\* one sort on a, id or the computed column; or a and id together, the list
\* held in either order
SortLists ==
  {<<>>}
  \cup {<<[key |-> k, direction |-> d, order |-> 1]>> : k \in {"a", "id", "cc"}, d \in Directions}
  \cup {<<[key |-> "a", direction |-> d, order |-> o],
          [key |-> "id", direction |-> e, order |-> 3 - o]>> :
          d \in Directions, e \in Directions, o \in {1, 2}}

InitSort ==
  /\ TableAtRest
  /\ \E rows \in SortRows, s \in SortLists, c \in {"none", "numeric", "directed"} :
       call = [op |-> "applySorting", rows |-> rows, sorts |-> s,
               columns |-> SortColumns(c), result |-> <<>>, done |-> FALSE]

CallApplySorting ==
  /\ call.op = "applySorting"
  /\ ~call.done
  /\ \E sorted \in ApplySorting(call.rows, call.sorts, call.columns) :
       call' = [call EXCEPT !.result = sorted, !.done = TRUE]
  /\ UNCHANGED tableVars

NextSort == CallApplySorting

SpecSort == InitSort /\ [][NextSort]_vars

SortDone == call.op = "applySorting" /\ call.done

\* the call sorts on one key, with the direction given
SortsOn(key, direction) ==
  call.sorts = <<[key |-> key, direction |-> direction, order |-> 1]>>

\* C6: with a sort on a computed column, the rows come out ordered by the
\* value computeColumnValue yields for each row.
C6_SortReadsComputedValue ==
  (SortDone /\ SortsOn(ComputedColumn.key, "asc")) =>
    \A i, j \in 1..Len(call.result) :
      i < j => DefaultCompare(Str(ComputeColumnValue(call.result[i], ComputedColumn)),
                              Str(ComputeColumnValue(call.result[j], ComputedColumn))) <= 0

\* C7: a comparator that returns the sign appropriate for 'desc' produces
\* descending output: its result is not negated again.
C7_ComparatorOwnsDirection ==
  (SortDone /\ SortsOn("id", "desc") /\ call.columns[2].comparator = "directed") =>
    \A i, j \in 1..Len(call.result) :
      i < j => call.result[i].id.n >= call.result[j].id.n

\* C9: the result is a permutation of the input in which any two rows are
\* ordered by the first sort entry, in ascending order, that tells them apart
\* (negated for 'desc'); rows tied on every key keep their input order; with
\* no sort entry the result is the input.
C9_SortedStablePermutation ==
  SortDone =>
    LET rows == call.rows
        out == call.result
        ordered == SortByOrder(call.sorts)
    IN  /\ out \in RowPermutations(rows)
        /\ \A i, j \in 1..Len(out) :
             i < j =>
               LET c == RowCompare(out[i], out[j], ordered, call.columns)
               IN  c < 0 \/ (c = 0 /\ out[i].id.n < out[j].id.n)
        /\ call.sorts = <<>> => out = rows

\* the values of the rows on a key are pairwise distinct
DistinctOn(rows, key) ==
  \A i, j \in 1..Len(rows) : i # j => Field(rows[i], key) # Field(rows[j], key)

\* C10: with one sort key whose values are pairwise distinct, the 'desc'
\* result is the reverse of the 'asc' result.
C10_DescReversesAsc ==
  (SortDone /\ SortsOn("a", "desc") /\ DistinctOn(call.rows, "a")) =>
    \A asc \in ApplySorting(call.rows, <<[key |-> "a", direction |-> "asc", order |-> 1]>>,
                            call.columns) :
      call.result = Reverse(asc)

(***************************************************************************)
(* applyFiltering on rows {a, b}.                                          *)
(***************************************************************************)
FilterRows ==
  SeqsUpTo({ [a |-> Num(1), b |-> Str(<<"x">>)],
             [a |-> Num(12), b |-> Str(<<"X", "y">>)],
             [a |-> Null, b |-> Str(<<"x">>)],
             [a |-> Num(2), b |-> Str(<<"y">>)] }, MaxFnRows)

FilterChoices ==
  { [key |-> "a", value |-> Str(<<"1">>), operator |-> "equals"],
    [key |-> "a", value |-> Str(<<"1">>), operator |-> "greaterThan"],
    [key |-> "b", value |-> Str(<<"x">>), operator |-> "contains"],
    [key |-> "b", value |-> Str(<<"y">>), operator |-> "endsWith"],
    [key |-> "a", value |-> Str(<<"1">>), operator |-> "between"] }

FilterLists ==
  {fs \in SeqsUpTo(FilterChoices, 2) : \A i, j \in 1..Len(fs) : fs[i].key = fs[j].key => i = j}

InitFilter ==
  /\ TableAtRest
  /\ \E rows \in FilterRows, fs \in FilterLists :
       call = [op |-> "applyFiltering", rows |-> rows, filters |-> fs,
               result |-> <<>>, done |-> FALSE]

CallApplyFiltering ==
  /\ call.op = "applyFiltering"
  /\ ~call.done
  /\ call' = [call EXCEPT !.result = ApplyFiltering(call.rows, call.filters), !.done = TRUE]
  /\ UNCHANGED tableVars

NextFilter == CallApplyFiltering

SpecFilter == InitFilter /\ [][NextFilter]_vars

FilterDone == call.op = "applyFiltering" /\ call.done

\* the positions of the rows that satisfy every filter
Kept(rows, fs) ==
  {i \in 1..Len(rows) : \A k \in 1..Len(fs) : ApplyFilterToRow(rows[i], fs[k])}

\* C8: applyFiltering returns a subsequence of its input: no longer than the
\* input, the kept rows in their input order, a row kept iff it satisfies
\* every active filter; with no active filter the output is the input.
C8_FilterIsSubsequence ==
  FilterDone =>
    LET rows == call.rows
        out == call.result
    IN  /\ Len(out) <= Len(rows)
        /\ \E m \in [1..Len(out) -> 1..Len(rows)] :
             /\ \A i, j \in 1..Len(out) : i < j => m[i] < m[j]
             /\ {m[i] : i \in 1..Len(out)} = Kept(rows, call.filters)
             /\ \A i \in 1..Len(out) : out[i] = rows[m[i]]
        /\ call.filters = <<>> => out = rows

\* two filters, a row kept between two dropped rows that each satisfy one filter
C8_Witness ==
  /\ FilterDone
  /\ Len(call.filters) = 2
  /\ Len(call.rows) = 3
  /\ Len(call.result) = 1
  /\ call.result[1] = call.rows[2]
  /\ \A i \in {1, 3} : \E k \in 1..2 : ApplyFilterToRow(call.rows[i], call.filters[k])

(***************************************************************************)
(* defaultCompare on null, undefined, numbers and strings.                 *)
(***************************************************************************)
CompareValues ==
  {Num(k) : k \in (0 - MaxCompareNum)..MaxCompareNum}
    \cup {Null, Undef, Str(<<"1">>), Str(<<"x">>)}

InitCompare ==
  /\ TableAtRest
  /\ \E a \in CompareValues, b \in CompareValues :
       call = [op |-> "defaultCompare", a |-> a, b |-> b, result |-> 0, done |-> FALSE]

CallDefaultCompare ==
  /\ call.op = "defaultCompare"
  /\ ~call.done
  /\ call' = [call EXCEPT !.result = DefaultCompare(call.a, call.b), !.done = TRUE]
  /\ UNCHANGED tableVars

NextCompare == CallDefaultCompare

SpecCompare == InitCompare /\ [][NextCompare]_vars

CompareDone == call.op = "defaultCompare" /\ call.done

\* C11: on null, undefined and numbers defaultCompare returns 0 for equal
\* values, a positive number when only the first argument is null or
\* undefined, a negative number when only the second is, 0 for null against
\* undefined in both argument orders, a - b for two numbers, and its sign is
\* reversed when the arguments are swapped.
C11_DefaultCompareTotalOrder ==
  (CompareDone /\ call.a.t # "str" /\ call.b.t # "str") =>
    LET a == call.a
        b == call.b
        r == call.result
    IN  /\ a = b => r = 0
        /\ (IsNullish(a) /\ ~IsNullish(b)) => r > 0
        /\ (~IsNullish(a) /\ IsNullish(b)) => r < 0
        /\ (IsNullish(a) /\ IsNullish(b)) => r = 0
        /\ (a.t = "num" /\ b.t = "num") => r = a.n - b.n
        /\ Sign(r) = 0 - Sign(DefaultCompare(b, a))

(***************************************************************************)
(* The table under header clicks and resetSort.                            *)
(***************************************************************************)
HeaderConfigs ==
  {[BaseConfig EXCEPT !.enableMultiSort = m, !.pageSize = MaxPageSize] : m \in BOOLEAN}

InitHeader ==
  /\ InitTable(HeaderConfigs)
  /\ call = NoCall

NextHeader ==
  \/ FlushEffects
  \/ \E i \in 1..Len(Columns), shiftKey \in BOOLEAN : HandleHeaderClick(Columns[i], shiftKey)
  \/ ResetSort

SpecHeader == InitHeader /\ [][NextHeader]_vars

\* C12: the active sort list has pairwise distinct keys and its order values
\* are 1..n in list position order.
C12_SortListWellFormed ==
  /\ \A i, j \in 1..Len(sorts) : sorts[i].key = sorts[j].key => i = j
  /\ \A i \in 1..Len(sorts) : sorts[i].order = i

\* three keys in the list, the first of them not the first column clicked
C12_Witness ==
  /\ lastOp.op = "handleHeaderClick"
  /\ Len(sorts) = 3
  /\ sorts[1].key = "b"
  /\ sorts[3].key = "id"

SortEntry(key, direction) == <<[key |-> key, direction |-> direction, order |-> 1]>>

\* C13: a plain click on a sortable column K turns [K asc] into [K desc],
\* [K desc] into the empty list, and any other list into [K asc]; a click on
\* a column that is not sortable changes nothing and emits no event.
C13_PlainClickCycle ==
  [][\A i \in 1..Len(Columns) :
       HandleHeaderClick(Columns[i], FALSE) =>
         LET K == Columns[i].key
         IN  IF ~Columns[i].sortable
             THEN sorts' = sorts /\ lastOp'.events = {}
             ELSE /\ lastOp'.events = {"sortChange"}
                  /\ sorts' = IF sorts = SortEntry(K, "asc") THEN SortEntry(K, "desc")
                              ELSE IF sorts = SortEntry(K, "desc") THEN <<>>
                              ELSE SortEntry(K, "asc")]_vars

\* with multi-sort off, a click that emptied the list: the third of the cycle
C13_Witness ==
  /\ ~config.enableMultiSort
  /\ lastOp.op = "handleHeaderClick"
  /\ lastOp.events = {"sortChange"}
  /\ sorts = <<>>

\* the entries of the other columns, by key and direction, in priority order
OtherEntries(entries, key) ==
  LET others == WithoutKey(entries, key)
  IN  [i \in 1..Len(others) |-> <<others[i].key, others[i].direction>>]

\* C14: with multi-sort enabled a modifier-click on a sortable column K
\* leaves every other entry's key, direction and relative priority; K is
\* appended ascending with order n+1 if absent, flipped to descending if
\* ascending, removed if descending, the remaining orders then being 1..n-1.
C14_ModifierClickFrame ==
  [][\A i \in 1..Len(Columns) :
       (config.enableMultiSort /\ Columns[i].sortable
          /\ HandleHeaderClick(Columns[i], TRUE)) =>
         LET K == Columns[i].key
             at == IndexOfKey(sorts, K)
             n == Len(sorts)
         IN  /\ OtherEntries(sorts', K) = OtherEntries(sorts, K)
             /\ at = 0 =>
                  sorts' = Append(sorts, [key |-> K, direction |-> "asc", order |-> n + 1])
             /\ (at > 0 /\ sorts[at].direction = "asc") =>
                  sorts' = [sorts EXCEPT ![at].direction = "desc"]
             /\ (at > 0 /\ sorts[at].direction = "desc") =>
                  /\ IndexOfKey(sorts', K) = 0
                  /\ Len(sorts') = n - 1
                  /\ \A j \in 1..(n - 1) : sorts'[j].order = j]_vars

\* two keys left, both descending, after three were active
C14_Witness ==
  /\ config.enableMultiSort
  /\ lastOp.op = "handleHeaderClick"
  /\ Len(sorts) = 2
  /\ sorts[1].direction = "desc"
  /\ sorts[2].direction = "desc"

(***************************************************************************)
(* The table under its filter boxes.                                       *)
(***************************************************************************)
FilterBoxes == {Columns[2], Columns[3]}

\* what is typed: nothing, a blank, a number, a padded letter
FilterTyped == { <<>>, <<" ">>, <<"1">>, <<" ", "x", " ">> }

FilterListConfigs == {[BaseConfig EXCEPT !.pageSize = MaxPageSize]}

InitFilterList ==
  /\ InitTable(FilterListConfigs)
  /\ call = NoCall

NextFilterList ==
  \/ FlushEffects
  \/ \E c \in FilterBoxes, v \in FilterTyped : HandleFilterInput(c, v)
  \/ \E c \in FilterBoxes : ClearFilter(c.key)
  \/ ClearAllFilters

SpecFilterList == InitFilterList /\ [][NextFilterList]_vars

\* the entries of a list on a key, and those on other keys, in list order
EntriesOn(entries, key) ==
  LET On(f) == f.key = key
  IN  SelectSeq(entries, On)

EntriesOff(entries, key) ==
  LET Off(f) == f.key # key
  IN  SelectSeq(entries, Off)

\* C15: the filter list holds at most one entry per column key;
\* handleFilterInput with a non-blank value leaves exactly the trimmed value
\* as that column's entry, with a blank value leaves no entry for the column,
\* and either way leaves the entries of the other columns as they were.
C15_OneFilterPerColumn ==
  [][/\ \A i, j \in 1..Len(filters') : filters'[i].key = filters'[j].key => i = j
     /\ \A c \in FilterBoxes, v \in FilterTyped :
          HandleFilterInput(c, v) =>
            /\ EntriesOff(filters', c.key) = EntriesOff(filters, c.key)
            /\ IF Trim(v) # <<>>
               THEN EntriesOn(filters', c.key) =
                      << [key |-> c.key, value |-> Str(Trim(v)),
                          operator |-> GetDefaultOperator(c.filterType)] >>
               ELSE EntriesOn(filters', c.key) = <<>>]_vars

\* a blank typed into box b, its entry gone, the entry of column a kept
C15_Witness ==
  /\ lastOp.op = "handleFilterInput"
  /\ "b" \in DOMAIN filterInputs
  /\ "a" \in DOMAIN filterInputs
  /\ Trim(filterInputs["b"]) = <<>>
  /\ Len(filters) = 1
  /\ filters[1].key = "a"

(***************************************************************************)
(* The table under its pagination handlers and the inputs that change the  *)
(* row count and the page size.                                            *)
(***************************************************************************)
PagingConfigs == {[BaseConfig EXCEPT !.pageSize = s] : s \in 1..MaxPageSize}

PageArguments == {PageNumber(k) : k \in (0 - 1)..(MaxRows + 1)} \cup {PageEllipsis}

InitPaging ==
  /\ InitTable(PagingConfigs)
  /\ call = NoCall

NextPaging ==
  \/ FlushEffects
  \/ \E k \in 0..MaxRows : SetData(k)
  \/ \E s \in 1..MaxPageSize : SetConfigPageSize(s)
  \/ \E p \in PageArguments : GoToPage(p)
  \/ \E s \in 1..MaxPageSize : ChangePageSize(s)
  \/ GoToPreviousPage
  \/ GoToNextPage

SpecPaging == InitPaging /\ [][NextPaging]_vars

\* C16: goToPage(p) with p < 1, p > ceil(totalItems / pageSize) or p a string
\* leaves currentPage and pageSize unchanged and emits no event (so goToPage(4)
\* with 25 items and pageSize 10, and every call with zero items);
\* goToPreviousPage and goToNextPage move currentPage only to a page in
\* [1, totalPages].
C16_GoToPageRejects ==
  [][/\ \A p \in PageArguments :
          (GoToPage(p) /\ (p.isString \/ p.n < 1
                             \/ p.n > CeilDiv(view.totalItems, pageSize)
                             \/ view.totalItems = 0)) =>
            /\ currentPage' = currentPage
            /\ pageSize' = pageSize
            /\ lastOp'.events = {}
     /\ ~GoToPageAccepts(PageNumber(4), 25, 10)
     /\ GoToPageAccepts(PageNumber(3), 25, 10)
     /\ ((GoToPreviousPage \/ GoToNextPage) /\ currentPage' # currentPage) =>
          /\ currentPage' >= 1
          /\ currentPage' <= CeilDiv(view'.totalItems, pageSize')
          /\ lastOp'.events = {"pageChange"}]_vars

\* a goToPage call refused on an empty table
C16_Witness ==
  /\ lastOp.op = "goToPage"
  /\ lastOp.events = {}
  /\ view.totalItems = 0
  /\ Idle

\* C17: every step that changes pageSize leaves currentPage equal to 1.
C17_PageSizeChangeResetsPage ==
  [][pageSize' # pageSize => currentPage' = 1]_vars

(***************************************************************************)
(* applyPagination on rows {id}.                                           *)
(***************************************************************************)
PagedRows == {[i \in 1..n |-> [id |-> Num(i)]] : n \in 0..MaxPagedRows}

InitPaginate ==
  /\ TableAtRest
  /\ \E rows \in PagedRows, p \in 1..(MaxPagedRows + 1), size \in 1..(MaxPageSize + 1),
        enabled \in BOOLEAN :
       call = [op |-> "applyPagination", rows |-> rows, currentPage |-> p,
               pageSize |-> size, enablePagination |-> enabled,
               result |-> <<>>, done |-> FALSE]

CallApplyPagination ==
  /\ call.op = "applyPagination"
  /\ ~call.done
  /\ call' = [call EXCEPT
                !.result = ApplyPagination(call.rows, call.currentPage, call.pageSize,
                                           call.enablePagination),
                !.done = TRUE]
  /\ UNCHANGED tableVars

NextPaginate == CallApplyPagination

SpecPaginate == InitPaginate /\ [][NextPaginate]_vars

PaginateDone == call.op = "applyPagination" /\ call.done

\* the pages 1..k of the rows, one after the other
RECURSIVE PagesUpTo(_, _, _)
PagesUpTo(rows, size, k) ==
  IF k = 0 THEN <<>>
  ELSE PagesUpTo(rows, size, k - 1) \o ApplyPagination(rows, k, size, TRUE)

\* C18: with pagination enabled and currentPage = p, applyPagination returns
\* the rows at indices [(p-1)*pageSize, min(p*pageSize, n)) in order; the
\* pages 1..ceil(n/pageSize) one after the other are the input; with
\* pagination disabled the result is the input.
C18_PageIsSlice ==
  PaginateDone =>
    LET rows == call.rows
        n == Len(rows)
        size == call.pageSize
        lo == (call.currentPage - 1) * size
        hi == IF call.currentPage * size < n THEN call.currentPage * size ELSE n
    IN  /\ call.enablePagination =>
             call.result = [i \in 1..(IF hi > lo THEN hi - lo ELSE 0) |-> rows[lo + i]]
        /\ PagesUpTo(rows, size, (n + size - 1) \div size) = rows
        /\ ~call.enablePagination => call.result = rows

\* a last page that is not full
C18_Witness ==
  /\ PaginateDone
  /\ call.enablePagination
  /\ call.currentPage = 2
  /\ Len(call.result) > 0
  /\ Len(call.result) < call.pageSize


(***************************************************************************)
(* computeVirtualScrollData on rows {id}; the paginated rows are the first *)
(* rows of the data.                                                       *)
(***************************************************************************)
ScrollConfigs ==
  {[enabled |-> e, itemHeight |-> h, bufferSize |-> b, containerHeight |-> v] :
     e \in BOOLEAN, h \in 1..MaxItemHeight, b \in 0..MaxBufferSize, v \in 0..MaxViewport}

InitScroll ==
  /\ TableAtRest
  /\ \E rows \in PagedRows, pos \in 0..(2 * MaxScrollTop), vconfig \in ScrollConfigs :
       call = [op |-> "computeVirtualScrollData", data |-> rows,
               paginatedData |-> SubSeq(rows, 1, Min(Len(rows), MaxPageSize)),
               scrollTop |-> pos, config |-> vconfig,
               result |-> ComputeVirtualScrollData(<<>>, <<>>, 0, vconfig), done |-> FALSE]

CallComputeVirtualScrollData ==
  /\ call.op = "computeVirtualScrollData"
  /\ ~call.done
  /\ call' = [call EXCEPT
                !.result = ComputeVirtualScrollData(call.data, call.paginatedData,
                                                    call.scrollTop, call.config),
                !.done = TRUE]
  /\ UNCHANGED tableVars

NextScroll == CallComputeVirtualScrollData

SpecScroll == InitScroll /\ [][NextScroll]_vars

ScrollDone == call.op = "computeVirtualScrollData" /\ call.done

\* floor(x / y) and ceil(x / y) for x >= 0, y > 0, by their defining inequalities
FloorOf(x, y) == CHOOSE q \in 0..x : q * y <= x /\ x < (q + 1) * y
CeilOf(x, y) == CHOOSE c \in 0..x : (c - 1) * y < x /\ x <= c * y

\* C19: with virtualization enabled, for scroll offset s, item height h,
\* buffer b, viewport height v and n rows: startIndex = max(0, floor(s/h) - b),
\* endIndex = min(n, startIndex + ceil(v/h) + 2b), offsetY = startIndex * h,
\* totalHeight = n * h and visibleData is rows[startIndex, endIndex);
\* h=48, b=5, v=600, s=960, n=1000 gives startIndex 15 and endIndex 38.  With
\* virtualization disabled the result is the paginated rows, startIndex 0 and
\* endIndex their length.
C19_WindowArithmetic ==
  /\ ScrollDone =>
       LET s == call.scrollTop
           h == call.config.itemHeight
           b == call.config.bufferSize
           v == call.config.containerHeight
           n == Len(call.data)
           r == call.result
           first == IF FloorOf(s, h) - b > 0 THEN FloorOf(s, h) - b ELSE 0
           reach == first + CeilOf(v, h) + 2 * b
           last == IF reach < n THEN reach ELSE n
       IN  IF call.config.enabled
           THEN /\ r.startIndex = first
                /\ r.endIndex = last
                /\ r.offsetY = first * h
                /\ r.totalHeight = n * h
                /\ r.visibleData =
                     [i \in 1..(IF last > first THEN last - first ELSE 0) |-> call.data[first + i]]
           ELSE /\ r.visibleData = call.paginatedData
                /\ r.startIndex = 0
                /\ r.endIndex = Len(call.paginatedData)
  /\ LET r == ComputeVirtualScrollData([i \in 1..1000 |-> i], <<>>, 960,
                [enabled |-> TRUE, itemHeight |-> 48, bufferSize |-> 5,
                 containerHeight |-> 600])
     IN  r.startIndex = 15 /\ r.endIndex = 38

\* a buffered window strictly inside the data
C19_Witness ==
  /\ ScrollDone
  /\ call.config.enabled
  /\ call.config.bufferSize > 0
  /\ call.result.startIndex > 0
  /\ call.result.endIndex < Len(call.data)


(***************************************************************************)
(* computeColumnValue on rows {status}.                                    *)
(***************************************************************************)
StatusValues ==
  {Bool(TRUE), Bool(FALSE), Str(<<"T", "r", "u", "e">>), Str(<<>>), Num(1), Null}

StatusRows == {[status |-> v] : v \in StatusValues} \cup {[id |-> Num(1)]}

Condition(operator, compareValue, thenValue, elseValue) ==
  [sourceColumn |-> "status", operator |-> operator, compareValue |-> compareValue,
   thenValue |-> thenValue, elseValue |-> elseValue]

Conditions ==
  {Condition("equals", <<"t", "r", "u", "e">>, <<"A">>, <<"x">>),
   Condition("equals", <<"T", "R", "U", "E">>, <<"B">>, <<"y">>),
   Condition("isEmpty", <<>>, <<"E">>, <<>>),
   Condition("greaterThan", <<"0">>, <<>>, <<"a">>)}

ColumnDefinitions ==
  {[key |-> "cc", conditions |-> cs, defaultValue |-> d] :
     cs \in SeqsUpTo(Conditions, MaxConditions), d \in {<<>>, <<"b">>}}

InitComputed ==
  /\ TableAtRest
  /\ \E row \in StatusRows, columnDef \in ColumnDefinitions :
       call = [op |-> "computeColumnValue", row |-> row, columnDef |-> columnDef,
               result |-> <<>>, done |-> FALSE]

CallComputeColumnValue ==
  /\ call.op = "computeColumnValue"
  /\ ~call.done
  /\ call' = [call EXCEPT !.result = ComputeColumnValue(call.row, call.columnDef),
                          !.done = TRUE]
  /\ UNCHANGED tableVars

NextComputed == CallComputeColumnValue

SpecComputed == InitComputed /\ [][NextComputed]_vars

ComputedDone == call.op = "computeColumnValue" /\ call.done

\* the conditions of the called definition that hold for the called row
HoldingConditions ==
  {i \in 1..Len(call.columnDef.conditions) :
     EvaluateCondition(call.row, call.columnDef.conditions[i])}

\* C20: computeColumnValue returns the thenValue of the first condition, in
\* list order, that holds for the row, whatever later conditions hold; when
\* none holds it returns defaultValue, or the first condition's elseValue
\* when defaultValue is empty; 'equals' compares the string-coerced values
\* without regard to case, so boolean true matches 'true'.
C20_FirstConditionWins ==
  /\ ComputedDone =>
       LET conditions == call.columnDef.conditions
           defaultValue == call.columnDef.defaultValue
       IN  /\ \A i \in HoldingConditions :
                (\A j \in HoldingConditions : i <= j) =>
                  call.result = conditions[i].thenValue
           /\ (HoldingConditions = {} /\ defaultValue # <<>>) =>
                call.result = defaultValue
           /\ (HoldingConditions = {} /\ defaultValue = <<>> /\ Len(conditions) > 0) =>
                call.result = conditions[1].elseValue
           /\ \A i \in 1..Len(conditions) :
                conditions[i].operator = "equals" =>
                  ((i \in HoldingConditions) <=>
                     Field(call.row, "status") \in
                       {Bool(TRUE), Str(<<"T", "r", "u", "e">>)})
  /\ EvaluateCondition([status |-> Bool(TRUE)],
                       Condition("equals", <<"t", "r", "u", "e">>, <<"A">>, <<>>))
  /\ ~EvaluateCondition([status |-> Bool(FALSE)],
                        Condition("equals", <<"t", "r", "u", "e">>, <<"A">>, <<>>))

\* a boolean true row on which two conditions with different thenValues hold
C20_Witness ==
  /\ ComputedDone
  /\ call.row = [status |-> Bool(TRUE)]
  /\ Cardinality(HoldingConditions) = 2
  /\ call.columnDef.conditions[1].thenValue # call.columnDef.conditions[2].thenValue
  /\ call.result = call.columnDef.conditions[1].thenValue


(***************************************************************************)
(* Computed-column handlers of the table.                                  *)
(***************************************************************************)
\* objects with one more object at a fresh address
Allocate(objects, address, object) ==
  [a \in (DOMAIN objects) \cup {address} |-> IF a = address THEN object ELSE objects[a]]

\* the objects some definition still refers to: the others are garbage
Referenced(objects, defs) ==
  [a \in {a \in DOMAIN objects :
            \E i \in 1..Len(defs) : \E j \in 1..Len(defs[i].conditions) :
              defs[i].conditions[j] = a} |-> objects[a]]

OpenAddColumnModal ==
  /\ Idle
  /\ generated + 2 <= MaxGenerated
  /\ currentComputedColumn' = CreateEmptyComputedColumn(generated)
  /\ conditionObjects' =
       Referenced(Allocate(conditionObjects, generated + 2,
                           CreateEmptyCondition(generated + 2)),
                  <<currentComputedColumn'>> \o computedColumns)
  /\ generated' = generated + 2
  /\ editingComputedColumn' = <<>>
  /\ computedColumnModalOpen' = TRUE
  /\ lastOp' = Ran("openAddColumnModal", {})
  /\ UNCHANGED <<data, config, filters, filterInputs, sorts, currentPage, pageSize,
                 selectedRows, scrollTop, pendingEffects, call>>
  /\ UNCHANGED <<columns, reorderVars, computedColumns, colorVars,
                 layoutVars>>
  /\ Recompute

\* the column handed over is one of the stored definitions; the copy is a new
\* definition with a new array of the same condition objects
OpenEditColumnModal(column) ==
  /\ Idle
  /\ currentComputedColumn' = column
  /\ editingComputedColumn' = <<column>>
  /\ computedColumnModalOpen' = TRUE
  /\ lastOp' = Ran("openEditColumnModal", {})
  /\ UNCHANGED <<data, config, filters, filterInputs, sorts, currentPage, pageSize,
                 selectedRows, scrollTop, pendingEffects, call>>
  /\ conditionObjects' = Referenced(conditionObjects, <<column>> \o computedColumns)
  /\ UNCHANGED <<columns, reorderVars, computedColumns, generated, colorVars,
                 layoutVars>>
  /\ Recompute

CloseColumnModal ==
  /\ Idle
  /\ computedColumnModalOpen' = FALSE
  /\ editingComputedColumn' = <<>>
  /\ lastOp' = Ran("closeColumnModal", {})
  /\ UNCHANGED <<data, config, filters, filterInputs, sorts, currentPage, pageSize,
                 selectedRows, scrollTop, pendingEffects, call>>
  /\ UNCHANGED <<columns, reorderVars, computedColumns, currentComputedColumn,
                 conditionObjects, generated, colorVars,
                 layoutVars>>
  /\ Recompute

AddCondition ==
  /\ Idle
  /\ generated + 1 <= MaxGenerated
  /\ currentComputedColumn' =
       [currentComputedColumn EXCEPT !.conditions = Append(@, generated + 1)]
  /\ conditionObjects' = Allocate(conditionObjects, generated + 1,
                                  CreateEmptyCondition(generated + 1))
  /\ generated' = generated + 1
  /\ lastOp' = Ran("addCondition", {})
  /\ UNCHANGED <<data, config, filters, filterInputs, sorts, currentPage, pageSize,
                 selectedRows, scrollTop, pendingEffects, call>>
  /\ UNCHANGED <<columns, reorderVars, computedColumns, computedColumnModalOpen,
                 editingComputedColumn, colorVars,
                 layoutVars>>
  /\ Recompute

RemoveCondition(conditionId) ==
  /\ Idle
  /\ currentComputedColumn' =
       [currentComputedColumn EXCEPT
          !.conditions = SelectSeq(@, LAMBDA a : conditionObjects[a].id # conditionId)]
  /\ conditionObjects' =
       Referenced(conditionObjects, <<currentComputedColumn'>> \o computedColumns)
  /\ lastOp' = Ran("removeCondition", {})
  /\ UNCHANGED <<data, config, filters, filterInputs, sorts, currentPage, pageSize,
                 selectedRows, scrollTop, pendingEffects, call>>
  /\ UNCHANGED <<columns, reorderVars, computedColumns, computedColumnModalOpen,
                 editingComputedColumn, generated, colorVars,
                 layoutVars>>
  /\ Recompute

\* a map that writes the field into the condition object it finds
MapConditionsInPlace(objects, conditions, conditionId, field, value, fresh) ==
  [objects |-> [a \in DOMAIN objects |->
                  IF \E i \in 1..Len(conditions) : conditions[i] = a
                       /\ objects[a].id = conditionId
                  THEN [objects[a] EXCEPT ![field] = value] ELSE objects[a]],
   conditions |-> conditions]

\* col.conditions.map(c => c.id === conditionId ? { ...c, [field]: value } : c):
\* the condition with the id (ids are generated, so at most one) is replaced
\* by a new object at the address fresh; the others stay the same objects
MapConditions(objects, conditions, conditionId, field, value, fresh) ==
  LET hit == {i \in 1..Len(conditions) : objects[conditions[i]].id = conditionId}
  IN  IF hit = {} THEN [objects |-> objects, conditions |-> conditions]
      ELSE [objects |-> Allocate(objects, fresh,
                                 [objects[conditions[CHOOSE i \in hit : TRUE]]
                                    EXCEPT ![field] = value]),
            conditions |-> [i \in 1..Len(conditions) |->
                              IF i \in hit THEN fresh ELSE conditions[i]]]

UpdateCondition(conditionId, field, value) ==
  /\ Idle
  /\ generated + 1 <= MaxGenerated
  /\ LET mapped == MapConditions(conditionObjects, currentComputedColumn.conditions,
                                 conditionId, field, value, generated + 1)
     IN  /\ currentComputedColumn' =
               [currentComputedColumn EXCEPT !.conditions = mapped.conditions]
         /\ conditionObjects' =
               Referenced(mapped.objects, <<currentComputedColumn'>> \o computedColumns)
         /\ generated' = IF mapped.objects = conditionObjects /\ mapped.conditions =
                              currentComputedColumn.conditions
                         THEN generated ELSE generated + 1
  /\ lastOp' = Ran("updateCondition", {})
  /\ UNCHANGED <<data, config, filters, filterInputs, sorts, currentPage, pageSize,
                 selectedRows, scrollTop, pendingEffects, call>>
  /\ UNCHANGED <<columns, reorderVars, computedColumns, computedColumnModalOpen,
                 editingComputedColumn, colorVars,
                 layoutVars>>
  /\ Recompute

UpdateComputedColumnField(field, value) ==
  /\ Idle
  /\ currentComputedColumn' = [currentComputedColumn EXCEPT ![field] = value]
  /\ lastOp' = Ran("updateComputedColumnField", {})
  /\ UNCHANGED <<data, config, filters, filterInputs, sorts, currentPage, pageSize,
                 selectedRows, scrollTop, pendingEffects, call>>
  /\ UNCHANGED <<columns, reorderVars, computedColumns, computedColumnModalOpen,
                 editingComputedColumn, conditionObjects, generated, colorVars,
                 layoutVars>>
  /\ Recompute

\* !column.title.trim()
TitleIsEmpty(title) == title = <<>>

TitleIsBlank(title) == Trim(title) = <<>>

AddComputedColumn(cols, column) == Append(cols, column)

UpdateComputedColumn(cols, column) ==
  [i \in 1..Len(cols) |-> IF cols[i].key = column.key THEN column ELSE cols[i]]

RemoveComputedColumn(cols, columnKey) == SelectSeq(cols, LAMBDA c : c.key # columnKey)

SaveComputedColumn ==
  /\ Idle
  /\ Len(computedColumns) < MaxComputedColumns \/ editingComputedColumn # <<>>
       \/ TitleIsBlank(currentComputedColumn.title)
  /\ IF TitleIsBlank(currentComputedColumn.title)
     THEN UNCHANGED <<computedColumns, computedColumnModalOpen, editingComputedColumn>>
     ELSE /\ computedColumns' =
               IF editingComputedColumn # <<>>
               THEN UpdateComputedColumn(computedColumns, currentComputedColumn)
               ELSE AddComputedColumn(computedColumns, currentComputedColumn)
          /\ computedColumnModalOpen' = FALSE
          /\ editingComputedColumn' = <<>>
  /\ conditionObjects' =
       Referenced(conditionObjects, <<currentComputedColumn>> \o computedColumns')
  /\ lastOp' = Ran("saveComputedColumn", {})
  /\ UNCHANGED <<data, config, filters, filterInputs, sorts, currentPage, pageSize,
                 selectedRows, scrollTop, pendingEffects, call>>
  /\ UNCHANGED <<columns, reorderVars, currentComputedColumn, generated, colorVars,
                 layoutVars>>
  /\ Recompute

DeleteComputedColumn(columnKey) ==
  /\ Idle
  /\ computedColumns' = RemoveComputedColumn(computedColumns, columnKey)
  /\ conditionObjects' =
       Referenced(conditionObjects, <<currentComputedColumn>> \o computedColumns')
  /\ lastOp' = Ran("deleteComputedColumn", {})
  /\ UNCHANGED <<data, config, filters, filterInputs, sorts, currentPage, pageSize,
                 selectedRows, scrollTop, pendingEffects, call>>
  /\ UNCHANGED <<columns, reorderVars, computedColumnModalOpen, editingComputedColumn,
                 currentComputedColumn, generated, colorVars,
                 layoutVars>>
  /\ Recompute

\* computedColumnToColumnConfig
ComputedColumnToColumnConfig(computedCol, order) ==
  [key |-> computedCol.key, order |-> order, sortable |-> TRUE, filterType |-> "text",
   comparator |-> "none", isComputed |-> TRUE]

\* allColumns: the base columns followed by the computed columns
AllColumns(baseColumns, computedCols) ==
  baseColumns \o [i \in 1..Len(computedCols) |->
                    ComputedColumnToColumnConfig(computedCols[i],
                                                 Len(baseColumns) + i - 1)]

(***************************************************************************)
(* The table under its computed-column handlers.                           *)
(***************************************************************************)
ModalConfigs == {[BaseConfig EXCEPT !.pageSize = MaxPageSize]}

Titles == {<<" ">>, <<"T">>}

InitModal ==
  /\ InitTable(ModalConfigs)
  /\ data = DataOfSize(0)
  /\ call = NoCall

NextModal ==
  \/ FlushEffects
  \/ OpenAddColumnModal
  \/ \E i \in 1..Len(computedColumns) : OpenEditColumnModal(computedColumns[i])
  \/ CloseColumnModal
  \/ AddCondition
  \/ \E i \in 1..Len(currentComputedColumn.conditions) :
       RemoveCondition(conditionObjects[currentComputedColumn.conditions[i]].id)
  \/ \E i \in 1..Len(currentComputedColumn.conditions) :
       UpdateCondition(conditionObjects[currentComputedColumn.conditions[i]].id,
                       "thenValue", <<"x">>)
  \/ \E title \in Titles : UpdateComputedColumnField("title", title)
  \/ SaveComputedColumn
  \/ \E i \in 1..Len(computedColumns) : DeleteComputedColumn(computedColumns[i].key)

SpecModal == InitModal /\ [][NextModal]_vars

\* the stored computed columns as a reader sees them
StoredDefinitions ==
  [i \in 1..Len(computedColumns) |-> Definition(computedColumns[i], conditionObjects)]


\* C21: saveComputedColumn with a title that is empty or only spaces changes
\* neither the stored list, nor the modal flag, nor the editing state; with
\* any other title it appends the definition (add mode) or puts it in the
\* place of the stored definition with its key (edit mode), closes the modal
\* and resets editingColumn to null.
C21_SaveValidatesTitle ==
  [][SaveComputedColumn =>
       LET title == currentComputedColumn.title
           saved == Definition(currentComputedColumn, conditionObjects)
       IN  IF \A i \in 1..Len(title) : title[i] = " "
           THEN /\ StoredDefinitions' = StoredDefinitions
                /\ UNCHANGED <<computedColumnModalOpen, editingComputedColumn,
                               currentComputedColumn>>
           ELSE /\ editingComputedColumn = <<>> =>
                     StoredDefinitions' = Append(StoredDefinitions, saved)
                /\ editingComputedColumn # <<>> =>
                     StoredDefinitions' =
                       [i \in 1..Len(StoredDefinitions) |->
                          IF StoredDefinitions[i].key = saved.key
                          THEN saved ELSE StoredDefinitions[i]]
                /\ ~computedColumnModalOpen'
                /\ editingComputedColumn' = <<>>]_vars

\* a save refused for a title of spaces, the modal still open
C21_Witness ==
  /\ lastOp.op = "saveComputedColumn"
  /\ computedColumnModalOpen
  /\ currentComputedColumn.title = <<" ">>
  /\ Idle

\* C22: while the modal is open, addCondition, removeCondition,
\* updateCondition and updateComputedColumnField leave the stored list as it
\* reads, every definition and condition in it, and so does closing the modal.
C22_EditsLeaveStoredList ==
  [][(\/ computedColumnModalOpen /\
          \/ AddCondition
          \/ \E id \in 1..MaxGenerated : RemoveCondition(id)
          \/ \E id \in 1..MaxGenerated : UpdateCondition(id, "thenValue", <<"x">>)
          \/ \E title \in Titles : UpdateComputedColumnField("title", title)
      \/ CloseColumnModal) =>
       StoredDefinitions' = StoredDefinitions]_vars

\* a stored definition under edit whose editing copy has a changed condition
C22_Witness ==
  /\ lastOp.op = "updateCondition"
  /\ computedColumnModalOpen
  /\ editingComputedColumn # <<>>
  /\ \E i \in 1..Len(computedColumns) :
       /\ computedColumns[i].key = currentComputedColumn.key
       /\ StoredDefinitions[i].conditions #
            Definition(currentComputedColumn, conditionObjects).conditions

\* C23: the keys of the base columns followed by the computed columns are
\* pairwise distinct.
C23_ColumnKeysDistinct ==
  LET all == AllColumns(columns, computedColumns)
  IN  \A i, j \in 1..Len(all) : i # j => all[i].key # all[j].key


(***************************************************************************)
(* Column Layout Engine.  A layout column is [key, order, width, frozen,   *)
(* frozenPosition, visible]; width is a number or undefined, and           *)
(* frozenPosition is "left", "right" or "undefined".                       *)
(***************************************************************************)
DefaultColumnWidth == 150
DefaultMinWidth == 50
DefaultMaxWidth == 500
CheckboxColumnWidth == 48

\* processColumns: DEFAULT_COLUMN_CONFIG under the column's own fields
ProcessColumns(cols) ==
  [i \in 1..Len(cols) |->
     IF "width" \in DOMAIN cols[i] THEN cols[i]
     ELSE [f \in (DOMAIN cols[i]) \cup {"width"} |->
             IF f = "width" THEN Num(DefaultColumnWidth) ELSE cols[i][f]]]

\* applyCustomWidths: widths is the columnWidths map
ApplyCustomWidths(cols, widths) ==
  [i \in 1..Len(cols) |->
     IF cols[i].key \in DOMAIN widths
     THEN [cols[i] EXCEPT !.width = Num(widths[cols[i].key])] ELSE cols[i]]

\* order.indexOf(key), from 0, -1 when absent
IndexOf(order, key) ==
  IF \E i \in 1..Len(order) : order[i] = key
  THEN (CHOOSE i \in 1..Len(order) : order[i] = key /\ \A j \in 1..(i - 1) : order[j] # key) - 1
  ELSE -1

\* a comparator that puts the keys absent from the order list first
CompareColumnOrderAbsentFirst(cols, order) ==
  [i \in 1..Len(cols) |-> [j \in 1..Len(cols) |->
     LET aIndex == IndexOf(order, cols[i].key)
         bIndex == IndexOf(order, cols[j].key)
     IN  IF aIndex = -1 /\ bIndex = -1 THEN cols[i].order - cols[j].order
         ELSE aIndex - bIndex]]

\* the comparator of applyColumnOrder on every pair of the columns
CompareColumnOrder(cols, order) ==
  [i \in 1..Len(cols) |-> [j \in 1..Len(cols) |->
     LET aIndex == IndexOf(order, cols[i].key)
         bIndex == IndexOf(order, cols[j].key)
     IN  IF aIndex = -1 /\ bIndex = -1 THEN cols[i].order - cols[j].order
         ELSE IF aIndex = -1 THEN 1
         ELSE IF bIndex = -1 THEN -1
         ELSE aIndex - bIndex]]

ApplyColumnOrder(cols, order) ==
  IF Len(order) = 0 THEN SortedColumns(cols, CompareStaticOrder(cols))
  ELSE SortedColumns(cols, CompareColumnOrder(cols, order))

\* a merge in which the "explicitly unfrozen" entry counts as no entry
ApplyDynamicFreezeIgnoreNull(cols, frozenMap) ==
  [i \in 1..Len(cols) |->
     IF cols[i].key \in DOMAIN frozenMap /\ frozenMap[cols[i].key] # "null"
     THEN [cols[i] EXCEPT !.frozen = TRUE, !.frozenPosition = frozenMap[cols[i].key]]
     ELSE cols[i]]

\* applyDynamicFreeze: frozenMap is the frozenColumns map, "null" its
\* "explicitly unfrozen" entry
ApplyDynamicFreeze(cols, frozenMap) ==
  [i \in 1..Len(cols) |->
     IF cols[i].key \in DOMAIN frozenMap
     THEN IF frozenMap[cols[i].key] = "null"
          THEN [cols[i] EXCEPT !.frozen = FALSE, !.frozenPosition = "undefined"]
          ELSE [cols[i] EXCEPT !.frozen = TRUE, !.frozenPosition = frozenMap[cols[i].key]]
     ELSE cols[i]]

GetVisibleColumns(cols) == SelectSeq(cols, LAMBDA col : col.visible)

GetFrozenLeftColumns(cols) ==
  SelectSeq(cols, LAMBDA col : col.frozen /\ col.frozenPosition # "right")

GetFrozenRightColumns(cols) ==
  SelectSeq(cols, LAMBDA col : col.frozen /\ col.frozenPosition = "right")

\* a filter that keeps every column not frozen on the left
GetScrollableColumnsNotLeft(cols) ==
  SelectSeq(cols, LAMBDA col : ~(col.frozen /\ col.frozenPosition # "right"))

GetScrollableColumns(cols) == SelectSeq(cols, LAMBDA col : ~col.frozen)

\* processedColumns of the table
ProcessedColumns(allColumns, widths, order, frozenMap, hidden) ==
  GetVisibleColumns(
    SelectSeq(ApplyDynamicFreeze(
                ApplyColumnOrder(ApplyCustomWidths(ProcessColumns(allColumns), widths),
                                 order),
                frozenMap),
              LAMBDA col : col.key \notin hidden))

\* column.width || 150
WidthOrDefault(col) ==
  IF col.width.t = "num" /\ col.width.n # 0 THEN col.width.n ELSE DefaultColumnWidth

\* cols.findIndex((c) => c.key === key), from 0, -1 when absent
FindIndex(cols, key) ==
  IF \E i \in 1..Len(cols) : cols[i].key = key
  THEN (CHOOSE i \in 1..Len(cols) :
          cols[i].key = key /\ \A j \in 1..(i - 1) : cols[j].key # key) - 1
  ELSE -1

RECURSIVE SumWidths(_, _, _)
SumWidths(cols, from, to) ==
  IF from > to THEN 0 ELSE WidthOrDefault(cols[from]) + SumWidths(cols, from + 1, to)

\* getFrozenLeftOffset, in px
GetFrozenLeftOffset(column, frozenLeftColumns, cfg) ==
  (IF cfg.enableRowSelection /\ cfg.showSelectionCheckbox THEN CheckboxColumnWidth ELSE 0)
    + SumWidths(frozenLeftColumns, 1, FindIndex(frozenLeftColumns, column.key))

\* getFrozenRightOffset, in px
GetFrozenRightOffset(column, frozenRightColumns) ==
  SumWidths(frozenRightColumns, FindIndex(frozenRightColumns, column.key) + 2,
            Len(frozenRightColumns))

(***************************************************************************)
(* applyDynamicFreeze on two columns and every frozenColumns map over      *)
(* their keys and a third key.                                             *)
(***************************************************************************)
StaticFreezes ==
  {<<FALSE, "undefined">>, <<TRUE, "undefined">>, <<TRUE, "left">>, <<TRUE, "right">>}

LayoutColumn(key, order, freeze) ==
  [key |-> key, order |-> order, width |-> Num(DefaultColumnWidth),
   frozen |-> freeze[1], frozenPosition |-> freeze[2], visible |-> TRUE]

\* the maps from some of the keys to the values
MapsOver(keys, values) == UNION {[d -> values] : d \in SUBSET keys}

InitFreeze ==
  /\ TableAtRest
  /\ \E fa \in StaticFreezes, fb \in StaticFreezes,
        frozenMap \in MapsOver({"a", "b", "z"}, {"left", "right", "null"}) :
       call = [op |-> "applyDynamicFreeze",
               columns |-> <<LayoutColumn("a", 0, fa), LayoutColumn("b", 1, fb)>>,
               frozenColumns |-> frozenMap, result |-> <<>>, done |-> FALSE]

CallApplyDynamicFreeze ==
  /\ call.op = "applyDynamicFreeze"
  /\ ~call.done
  /\ call' = [call EXCEPT !.result = ApplyDynamicFreeze(call.columns, call.frozenColumns),
                          !.done = TRUE]
  /\ UNCHANGED tableVars

NextFreeze == CallApplyDynamicFreeze

SpecFreeze == InitFreeze /\ [][NextFreeze]_vars

FreezeDone == call.op = "applyDynamicFreeze" /\ call.done

\* C24: applyDynamicFreeze keeps the number and order of the columns; a key
\* with override 'left' or 'right' is frozen at that position whatever its
\* static definition, a key with the 'explicitly unfrozen' override has
\* frozen = false, a key with no override keeps its static frozen and
\* frozenPosition.
C24_EffectiveFreeze ==
  FreezeDone =>
    /\ Len(call.result) = Len(call.columns)
    /\ \A i \in 1..Len(call.columns) :
         LET static == call.columns[i]
             effective == call.result[i]
             overridden == static.key \in DOMAIN call.frozenColumns
         IN  /\ effective.key = static.key
             /\ (overridden /\ call.frozenColumns[static.key] \in {"left", "right"}) =>
                  /\ effective.frozen
                  /\ effective.frozenPosition = call.frozenColumns[static.key]
             /\ (overridden /\ call.frozenColumns[static.key] = "null") =>
                  ~effective.frozen
             /\ ~overridden => effective = static

\* a statically frozen column that the override unfreezes
C24_Witness ==
  /\ FreezeDone
  /\ call.columns[1].frozen
  /\ "a" \in DOMAIN call.frozenColumns
  /\ call.frozenColumns["a"] = "null"
  /\ ~call.result[1].frozen


(***************************************************************************)
(* applyColumnOrder on three columns with every static order and every     *)
(* order list of distinct keys, one of them the key of no column.          *)
(***************************************************************************)
\* the sequences of pairwise different elements of a set, up to a length
DistinctSeqs(S, n) ==
  {q \in SeqsUpTo(S, n) : \A i, j \in 1..Len(q) : i # j => q[i] # q[j]}

InitReorder ==
  /\ TableAtRest
  /\ \E oa \in 0..MaxStaticOrder, ob \in 0..MaxStaticOrder, oc \in 0..MaxStaticOrder,
        order \in DistinctSeqs({"a", "b", "c", "z"}, 3) :
       call = [op |-> "applyColumnOrder",
               columns |-> <<LayoutColumn("a", oa, <<FALSE, "undefined">>),
                             LayoutColumn("b", ob, <<FALSE, "undefined">>),
                             LayoutColumn("c", oc, <<FALSE, "undefined">>)>>,
               columnOrder |-> order, result |-> <<>>, done |-> FALSE]

CallApplyColumnOrder ==
  /\ call.op = "applyColumnOrder"
  /\ ~call.done
  /\ call' = [call EXCEPT !.result = ApplyColumnOrder(call.columns, call.columnOrder),
                          !.done = TRUE]
  /\ UNCHANGED tableVars

NextReorder == CallApplyColumnOrder

SpecReorder == InitReorder /\ [][NextReorder]_vars

ReorderDone == call.op = "applyColumnOrder" /\ call.done

\* the key is one of the order list
Listed(key) == \E i \in 1..Len(call.columnOrder) : call.columnOrder[i] = key

\* the place of a listed key in the order list
PlaceOf(key) == CHOOSE i \in 1..Len(call.columnOrder) : call.columnOrder[i] = key

\* C25: applyColumnOrder returns a permutation of the columns in which the
\* keys of the order list come in the list's order, every key absent from
\* the list comes after all the listed ones, and the absent keys are ordered
\* by their static order; with an empty list all columns are ordered by
\* static order.
C25_ExplicitOrderFirst ==
  ReorderDone =>
    LET r == call.result
    IN  /\ Len(r) = Len(call.columns)
        /\ \A i \in 1..Len(call.columns) : \E j \in 1..Len(r) : r[j] = call.columns[i]
        /\ \A i, j \in 1..Len(r) :
             i < j =>
               /\ (Listed(r[i].key) /\ Listed(r[j].key)) =>
                    PlaceOf(r[i].key) < PlaceOf(r[j].key)
               /\ ~(~Listed(r[i].key) /\ Listed(r[j].key))
               /\ (~Listed(r[i].key) /\ ~Listed(r[j].key)) => r[i].order <= r[j].order

\* a listed column moved in front of an absent one of lower static order
C25_Witness ==
  /\ ReorderDone
  /\ call.columnOrder = <<"c", "z">>
  /\ call.columns[1].order < call.columns[3].order
  /\ call.result[1].key = "c"
  /\ call.result[2].key = "a"


(***************************************************************************)
(* The column layout of the table: two base columns and up to two computed *)
(* columns, under two keys or, after a repeated save, one, laid out under  *)
(* width overrides, an order list, freeze overrides and hidden keys.       *)
(***************************************************************************)
BaseLayouts ==
  {<<[LayoutColumn("a", 1, fa) EXCEPT !.visible = va],
     IF wb THEN [LayoutColumn("b", 0, fb) EXCEPT !.width = Num(60)]
     ELSE [f \in {"key", "order", "frozen", "frozenPosition", "visible"} |->
             LayoutColumn("b", 0, fb)[f]]>> :
     fa \in StaticFreezes \ {<<TRUE, "right">>},
     fb \in {<<FALSE, "undefined">>, <<TRUE, "right">>},
     va \in BOOLEAN, wb \in BOOLEAN}

\* computedColumnToColumnConfig, as a layout column
ComputedLayoutColumn(key, order) ==
  [key |-> key, order |-> order, width |-> Num(DefaultColumnWidth)]

\* allColumns, as layout columns; the defaults of the computed columns are
\* filled in as processColumns does
AllLayoutColumns(baseColumns, computedKeys) ==
  baseColumns \o [i \in 1..Len(computedKeys) |->
                    [LayoutColumn(computedKeys[i], Len(baseColumns) + i - 1,
                                  <<FALSE, "undefined">>)
                       EXCEPT !.width = ComputedLayoutColumn(computedKeys[i], 0).width]]

LayoutConfigs ==
  {[BaseConfig EXCEPT !.enableRowSelection = e, !.showSelectionCheckbox = c] :
     e \in BOOLEAN, c \in BOOLEAN} \ {[BaseConfig EXCEPT !.enableRowSelection = FALSE,
                                                         !.showSelectionCheckbox = FALSE]}

InitLayout ==
  /\ TableAtRest
  /\ \E base \in BaseLayouts,
        computedKeys \in {<<>>, <<"k", "m">>, <<"k", "k">>},
        widths \in MapsOver({"a", "k"}, {80}),
        order \in {<<>>, <<"k", "b", "a">>},
        fa \in MapsOver({"a"}, {"right", "null"}),
        fk \in MapsOver({"k"}, {"left", "right"}),
        hidden \in {{}, {"a"}, {"b"}},
        cfg \in LayoutConfigs :
       call = [op |-> "layout", allColumns |-> AllLayoutColumns(base, computedKeys),
               columnWidths |-> widths, columnOrder |-> order,
               frozenColumns |-> [k \in (DOMAIN fa) \cup (DOMAIN fk) |->
                                    IF k \in DOMAIN fa THEN fa[k] ELSE fk[k]],
               hiddenColumns |-> hidden, config |-> cfg,
               processedColumns |-> <<>>, frozenLeftColumns |-> <<>>,
               frozenRightColumns |-> <<>>, scrollableColumns |-> <<>>,
               leftOffsets |-> <<>>, rightOffsets |-> <<>>, done |-> FALSE]

\* the computed signals processedColumns, frozenLeftColumns, frozenRightColumns
\* and scrollableColumns, and the offset of every frozen column
ComputeLayout ==
  /\ call.op = "layout"
  /\ ~call.done
  /\ LET processed == ProcessedColumns(call.allColumns, call.columnWidths,
                                       call.columnOrder, call.frozenColumns,
                                       call.hiddenColumns)
         left == GetFrozenLeftColumns(processed)
         right == GetFrozenRightColumns(processed)
     IN  call' = [call EXCEPT
                    !.processedColumns = processed,
                    !.frozenLeftColumns = left,
                    !.frozenRightColumns = right,
                    !.scrollableColumns = GetScrollableColumns(processed),
                    !.leftOffsets = [i \in 1..Len(left) |->
                                       GetFrozenLeftOffset(left[i], left, call.config)],
                    !.rightOffsets = [i \in 1..Len(right) |->
                                        GetFrozenRightOffset(right[i], right)],
                    !.done = TRUE]
  /\ UNCHANGED tableVars

NextLayout == ComputeLayout

SpecLayout == InitLayout /\ [][NextLayout]_vars

LayoutDone == call.op = "layout" /\ call.done

\* the elements of a sequence
Range(q) == {q[i] : i \in 1..Len(q)}

\* part holds elements of whole in the order they have in whole
InOrderOf(part, whole) ==
  \E f \in [1..Len(part) -> 1..Len(whole)] :
    /\ \A i \in 1..Len(part) : whole[f[i]] = part[i]
    /\ \A i, j \in 1..Len(part) : i < j => f[i] < f[j]

\* C26: the frozen-left, frozen-right and scrollable groups are pairwise
\* disjoint, together they are exactly the laid-out list, each keeps the order
\* of the laid-out list, and no column of them is hidden or not visible.
C26_GroupsPartitionLayout ==
  LayoutDone =>
    LET laid == call.processedColumns
        left == call.frozenLeftColumns
        right == call.frozenRightColumns
        scrollable == call.scrollableColumns
    IN  /\ Range(left) \cap Range(right) = {}
        /\ Range(left) \cap Range(scrollable) = {}
        /\ Range(right) \cap Range(scrollable) = {}
        /\ Range(left) \cup Range(right) \cup Range(scrollable) = Range(laid)
        /\ Len(left) + Len(right) + Len(scrollable) = Len(laid)
        /\ InOrderOf(left, laid)
        /\ InOrderOf(right, laid)
        /\ InOrderOf(scrollable, laid)
        /\ \A i \in 1..Len(laid) :
             laid[i].key \notin call.hiddenColumns /\ laid[i].visible
        /\ \A i \in 1..Len(call.allColumns) :
             LET col == call.allColumns[i]
             IN  (col.key \notin call.hiddenColumns /\ col.visible) =>
                   \E j \in 1..Len(laid) : laid[j].key = col.key

\* all three groups hold a column while one column is hidden
C26_Witness ==
  /\ LayoutDone
  /\ call.frozenLeftColumns # <<>>
  /\ call.frozenRightColumns # <<>>
  /\ call.scrollableColumns # <<>>
  /\ call.hiddenColumns # {}

\* the width a column is laid out with: the resize override, else its static
\* width, else the default
EffectiveWidth(col) ==
  IF col.key \in DOMAIN call.columnWidths THEN call.columnWidths[col.key]
  ELSE LET static == CHOOSE c \in Range(call.allColumns) : c.key = col.key
       IN  IF "width" \in DOMAIN static THEN static.width.n ELSE DefaultColumnWidth

RECURSIVE SumEffectiveWidths(_, _, _)
SumEffectiveWidths(cols, from, to) ==
  IF from > to THEN 0
  ELSE EffectiveWidth(cols[from]) + SumEffectiveWidths(cols, from + 1, to)

\* C27: the left offset of a frozen-left column is the sum of the effective
\* widths of the frozen-left columns before it, plus 48 when row selection and
\* the selection checkbox are both enabled; the right offset of a frozen-right
\* column is the sum of the effective widths of the frozen-right columns
\* after it.
C27_FrozenOffsets ==
  LayoutDone =>
    LET left == call.frozenLeftColumns
        right == call.frozenRightColumns
        reserved == IF call.config.enableRowSelection /\ call.config.showSelectionCheckbox
                    THEN 48 ELSE 0
    IN  /\ \A i \in 1..Len(left) :
             call.leftOffsets[i] = reserved + SumEffectiveWidths(left, 1, i - 1)
        /\ \A i \in 1..Len(right) :
             call.rightOffsets[i] = SumEffectiveWidths(right, i + 1, Len(right))

\* the same, for layouts whose column keys are pairwise distinct
C27_FrozenOffsetsDistinctKeys ==
  (LayoutDone /\ \A i, j \in 1..Len(call.allColumns) :
                   i # j => call.allColumns[i].key # call.allColumns[j].key)
    => C27_FrozenOffsets


(***************************************************************************)
(* Color Resolver.  The color maps are functions from keys to non-empty    *)
(* colors; a row key is a value of the row's key field, a column key and a *)
(* color are strings.                                                      *)
(***************************************************************************)
\* map.get(key) || ''
GetOrEmpty(map, key) == IF key \in DOMAIN map THEN map[key] ELSE <<>>

\* the map after set(key, color) for a color, delete(key) for ''
WithColor(map, key, color) ==
  IF color # <<>> THEN MapSet(map, key, color) ELSE MapDelete(map, key)

\* `${rowKey}:${columnKey}`
GetCellKey(rowKey, columnKey) == ToStr(rowKey) \o <<":">> \o columnKey

GetRowColor(rows, rowKey) == GetOrEmpty(rows, rowKey)

GetColumnColor(cols, columnKey) == GetOrEmpty(cols, columnKey)

GetCellColor(cells, rowKey, columnKey) == GetOrEmpty(cells, GetCellKey(rowKey, columnKey))

\* getResolvedCellColor
GetResolvedCellColor(rows, cols, cells, rowKey, columnKey) ==
  IF GetCellColor(cells, rowKey, columnKey) # <<>>
  THEN GetCellColor(cells, rowKey, columnKey)
  ELSE IF GetRowColor(rows, rowKey) # <<>> THEN GetRowColor(rows, rowKey)
  ELSE IF GetColumnColor(cols, columnKey) # <<>> THEN GetColumnColor(cols, columnKey)
  ELSE <<>>

OpenColorPicker(context) ==
  /\ Idle
  /\ activeColorPicker' = <<context>>
  /\ lastOp' = Ran("openColorPicker", {})
  /\ UNCHANGED <<data, config, filters, filterInputs, sorts, currentPage, pageSize,
                 selectedRows, scrollTop, pendingEffects, call>>
  /\ UNCHANGED <<columnVars, layoutVars, rowColors, columnColors, cellColors>>
  /\ Recompute

SetRowColor(rowKey, color) ==
  /\ Idle
  /\ rowColors' = WithColor(rowColors, rowKey, color)
  /\ activeColorPicker' = <<>>
  /\ lastOp' = Ran("setRowColor", {})
  /\ UNCHANGED <<data, config, filters, filterInputs, sorts, currentPage, pageSize,
                 selectedRows, scrollTop, pendingEffects, call>>
  /\ UNCHANGED <<columnVars, layoutVars, columnColors, cellColors>>
  /\ Recompute

SetColumnColor(columnKey, color) ==
  /\ Idle
  /\ columnColors' = WithColor(columnColors, columnKey, color)
  /\ activeColorPicker' = <<>>
  /\ lastOp' = Ran("setColumnColor", {})
  /\ UNCHANGED <<data, config, filters, filterInputs, sorts, currentPage, pageSize,
                 selectedRows, scrollTop, pendingEffects, call>>
  /\ UNCHANGED <<columnVars, layoutVars, rowColors, cellColors>>
  /\ Recompute

SetCellColor(rowKey, columnKey, color) ==
  /\ Idle
  /\ cellColors' = WithColor(cellColors, GetCellKey(rowKey, columnKey), color)
  /\ activeColorPicker' = <<>>
  /\ lastOp' = Ran("setCellColor", {})
  /\ UNCHANGED <<data, config, filters, filterInputs, sorts, currentPage, pageSize,
                 selectedRows, scrollTop, pendingEffects, call>>
  /\ UNCHANGED <<columnVars, layoutVars, rowColors, columnColors>>
  /\ Recompute

ClearAllColors ==
  /\ Idle
  /\ rowColors' = <<>>
  /\ columnColors' = <<>>
  /\ cellColors' = <<>>
  /\ lastOp' = Ran("clearAllColors", {})
  /\ UNCHANGED <<data, config, filters, filterInputs, sorts, currentPage, pageSize,
                 selectedRows, scrollTop, pendingEffects, call>>
  /\ UNCHANGED <<columnVars, layoutVars, activeColorPicker>>
  /\ Recompute

(***************************************************************************)
(* The table under its coloring functions: rows keyed 1 and '1', columns   *)
(* a and b, two colors of the palette and the empty "None".                *)
(***************************************************************************)
ColoredRowKeys == {Num(1), Str(<<"1">>)}

ColoredColumnKeys == {<<"a">>, <<"b">>}

Colors == {<<>>, <<"#", "r">>, <<"#", "b">>}

PickerContexts ==
  {[type |-> "row", rowKey |-> Num(1), columnKey |-> <<>>],
   [type |-> "cell", rowKey |-> Str(<<"1">>), columnKey |-> <<"a">>]}

ColorConfigs == {[BaseConfig EXCEPT !.pageSize = MaxPageSize]}

InitColor ==
  /\ InitTable(ColorConfigs)
  /\ data = DataOfSize(0)
  /\ call = NoCall

NextColor ==
  \/ FlushEffects
  \/ \E context \in PickerContexts : OpenColorPicker(context)
  \/ \E rowKey \in ColoredRowKeys, color \in Colors : SetRowColor(rowKey, color)
  \/ \E columnKey \in ColoredColumnKeys, color \in Colors : SetColumnColor(columnKey, color)
  \/ \E rowKey \in ColoredRowKeys, columnKey \in ColoredColumnKeys, color \in Colors :
       SetCellColor(rowKey, columnKey, color)
  \/ ClearAllColors

SpecColor == InitColor /\ [][NextColor]_vars

\* the color the table resolves for a cell, now
Resolved(rowKey, columnKey) ==
  GetResolvedCellColor(rowColors, columnColors, cellColors, rowKey, columnKey)

\* the row's color if set, else the column's, else none
RowThenColumn(rowKey, columnKey) ==
  IF rowKey \in DOMAIN rowColors THEN rowColors[rowKey]
  ELSE IF columnKey \in DOMAIN columnColors THEN columnColors[columnKey]
  ELSE <<>>

\* C28: the resolved color of a cell is its cell-specific color if one is
\* set, else its row's color, else its column's color, else empty.  Stated on
\* the steps: setCellColor(r, c, color) makes (r, c) resolve to color, or to
\* the row's then the column's color when color is empty, and leaves the
\* resolution of every other cell as it was; clearAllColors makes every cell
\* resolve to empty.
C28_ColorPriority ==
  [][/\ \A r \in ColoredRowKeys, c \in ColoredColumnKeys, color \in Colors :
          SetCellColor(r, c, color) =>
            /\ Resolved(r, c)' = IF color # <<>> THEN color ELSE RowThenColumn(r, c)
            /\ \A r2 \in ColoredRowKeys, c2 \in ColoredColumnKeys :
                 <<r2, c2>> # <<r, c>> => Resolved(r2, c2)' = Resolved(r2, c2)
     /\ ClearAllColors =>
          \A r \in ColoredRowKeys, c \in ColoredColumnKeys : Resolved(r, c)' = <<>>]_vars


\* The same statement for the cells whose key text differs: it holds, so the
\* priority order itself is as stated and only cells sharing a key text differ.
C28_ColorPriorityDistinctText ==
  [][/\ \A r \in ColoredRowKeys, c \in ColoredColumnKeys, color \in Colors :
          SetCellColor(r, c, color) =>
            /\ Resolved(r, c)' = IF color # <<>> THEN color ELSE RowThenColumn(r, c)
            /\ \A r2 \in ColoredRowKeys, c2 \in ColoredColumnKeys :
                 GetCellKey(r2, c2) # GetCellKey(r, c) => Resolved(r2, c2)' = Resolved(r2, c2)
     /\ ClearAllColors =>
          \A r \in ColoredRowKeys, c \in ColoredColumnKeys : Resolved(r, c)' = <<>>]_vars


(***************************************************************************)
(* The table under resetAll.  Handlers run between two runs of the         *)
(* effects; ResetAllAgain is the second of two resetAll calls made in one  *)
(* turn, before the effects of the first have run.                         *)
(***************************************************************************)
ResetConfigs == {[BaseConfig EXCEPT !.pageSize = 2]}

ResetAllAgain ==
  /\ lastOp.op = "resetAll"
  /\ ResetAllBody

InitReset ==
  /\ InitTable(ResetConfigs)
  /\ call = NoCall

NextReset ==
  \/ FlushEffects
  \/ HandleFilterInput(Columns[3], <<" ", "x">>)
  \/ HandleHeaderClick(Columns[2], FALSE)
  \/ GoToNextPage
  \/ \E i \in 1..Len(view.paginatedData) : ToggleRowSelection(view.paginatedData[i])
  \/ SetRowColor(Num(1), <<"#", "r">>)
  \/ SetCellColor(Num(1), <<"a">>, <<"#", "b">>)
  \/ ResetAll
  \/ ResetAllAgain

SpecReset == InitReset /\ [][NextReset]_vars

\* the inputs, the signals and the derived stages of the table: every
\* variable but the record of the last handler run and the scheduled effects
TableState ==
  <<data, config, filters, filterInputs, sorts, currentPage, pageSize, selectedRows,
    scrollTop, view, call, featureVars>>

SetColumns(cols) ==
  /\ Idle
  /\ columns' = cols
  /\ columns' # columns
  /\ pendingEffects' = pendingEffects \cup {"columnOrder"}
  /\ lastOp' = Ran("setColumns", {})
  /\ UNCHANGED <<data, config, filters, filterInputs, sorts, currentPage, pageSize,
                 selectedRows, scrollTop, call>>
  /\ UNCHANGED <<reorderVars, computedColumns, computedColumnModalOpen, editingComputedColumn,
                 currentComputedColumn, conditionObjects, generated, colorVars,
                 layoutVars>>
  /\ Recompute

StartDrag(column) ==
  /\ Idle
  /\ draggedColumn' = IF ~config.enableColumnReorder \/ column.frozen
                      THEN draggedColumn ELSE <<column.key>>
  /\ lastOp' = Ran("startDrag", {})
  /\ UNCHANGED <<data, config, filters, filterInputs, sorts, currentPage, pageSize,
                 selectedRows, scrollTop, pendingEffects, call>>
  /\ UNCHANGED <<columns, columnOrder, dropTargetColumn, computedColumns,
                 computedColumnModalOpen, editingComputedColumn, currentComputedColumn,
                 conditionObjects, generated, colorVars,
                 layoutVars>>
  /\ Recompute

HandleDragOver(column) ==
  /\ Idle
  /\ dropTargetColumn' =
       IF ~config.enableColumnReorder \/ column.frozen THEN dropTargetColumn
       ELSE IF draggedColumn # <<>> /\ draggedColumn # <<column.key>> THEN <<column.key>>
       ELSE dropTargetColumn
  /\ lastOp' = Ran("handleDragOver", {})
  /\ UNCHANGED <<data, config, filters, filterInputs, sorts, currentPage, pageSize,
                 selectedRows, scrollTop, pendingEffects, call>>
  /\ UNCHANGED <<columns, columnOrder, draggedColumn, computedColumns,
                 computedColumnModalOpen, editingComputedColumn, currentComputedColumn,
                 conditionObjects, generated, colorVars,
                 layoutVars>>
  /\ Recompute

HandleDragLeave ==
  /\ Idle
  /\ dropTargetColumn' = <<>>
  /\ lastOp' = Ran("handleDragLeave", {})
  /\ UNCHANGED <<data, config, filters, filterInputs, sorts, currentPage, pageSize,
                 selectedRows, scrollTop, pendingEffects, call>>
  /\ UNCHANGED <<columns, columnOrder, draggedColumn, computedColumns,
                 computedColumnModalOpen, editingComputedColumn, currentComputedColumn,
                 conditionObjects, generated, colorVars,
                 layoutVars>>
  /\ Recompute

\* a move that puts the dragged key just before the target key
MoveToBefore(order, fromIndex, toIndex) ==
  LET removed == [i \in 1..(Len(order) - 1) |->
                    IF i < fromIndex THEN order[i] ELSE order[i + 1]]
      place == IF fromIndex < toIndex THEN toIndex - 1 ELSE toIndex
  IN  SubSeq(removed, 1, place - 1) \o <<order[fromIndex]>>
        \o SubSeq(removed, place, Len(removed))

\* order.splice(fromIndex, 1); order.splice(toIndex, 0, dragged), both indexes
\* taken before the removal and counted from 1 here
MoveTo(order, fromIndex, toIndex) ==
  LET removed == [i \in 1..(Len(order) - 1) |->
                    IF i < fromIndex THEN order[i] ELSE order[i + 1]]
  IN  SubSeq(removed, 1, toIndex - 1) \o <<order[fromIndex]>>
        \o SubSeq(removed, toIndex, Len(removed))

\* the drop is carried out: a column is dragged, it is not the target, the
\* target is not frozen, and both are in the order list
Drops(column) ==
  /\ draggedColumn # <<>>
  /\ draggedColumn # <<column.key>>
  /\ ~column.frozen
  /\ IndexOf(columnOrder, draggedColumn[1]) >= 0
  /\ IndexOf(columnOrder, column.key) >= 0

HandleDrop(column) ==
  /\ Idle
  /\ IF draggedColumn = <<>> \/ draggedColumn = <<column.key>> \/ column.frozen
     THEN /\ UNCHANGED <<reorderVars, pendingEffects>>
          /\ lastOp' = Ran("handleDrop", {})
     ELSE /\ IF Drops(column)
             THEN /\ columnOrder' = MoveTo(columnOrder,
                                           IndexOf(columnOrder, draggedColumn[1]) + 1,
                                           IndexOf(columnOrder, column.key) + 1)
                  /\ pendingEffects' = pendingEffects \cup {"columnOrder"}
                  /\ lastOp' = Ran("handleDrop", {"columnReorder"})
             ELSE /\ UNCHANGED <<columnOrder, pendingEffects>>
                  /\ lastOp' = Ran("handleDrop", {})
          /\ draggedColumn' = <<>>
          /\ dropTargetColumn' = <<>>
  /\ UNCHANGED <<data, config, filters, filterInputs, sorts, currentPage, pageSize,
                 selectedRows, scrollTop, call>>
  /\ UNCHANGED <<columns, computedColumns, computedColumnModalOpen, editingComputedColumn,
                 currentComputedColumn, conditionObjects, generated, colorVars,
                 layoutVars>>
  /\ Recompute

HandleDragEnd ==
  /\ Idle
  /\ draggedColumn' = <<>>
  /\ dropTargetColumn' = <<>>
  /\ lastOp' = Ran("handleDragEnd", {})
  /\ UNCHANGED <<data, config, filters, filterInputs, sorts, currentPage, pageSize,
                 selectedRows, scrollTop, pendingEffects, call>>
  /\ UNCHANGED <<columns, columnOrder, computedColumns, computedColumnModalOpen,
                 editingComputedColumn, currentComputedColumn, conditionObjects, generated,
                 colorVars,
                 layoutVars>>
  /\ Recompute

(***************************************************************************)
(* The table under changes of its column set and drag-reorder.  The column *)
(* lists are not in static order, so that the initial order tells the two  *)
(* apart.                                                                  *)
(***************************************************************************)
ColumnSets ==
  { <<>>, <<Columns[3], Columns[2]>>, <<Columns[4], Columns[2], Columns[3]>> }

ColumnOrderConfigs ==
  {[BaseConfig EXCEPT !.pageSize = MaxPageSize, !.enableColumnReorder = e] : e \in BOOLEAN}

\* the header cells a pointer can be over
HeaderColumns ==
  {[key |-> columns[i].key, frozen |-> f] : i \in 1..Len(columns), f \in BOOLEAN}

InitColumnOrder ==
  /\ \E cols \in ColumnSets : InitTableWith(ColumnOrderConfigs, cols)
  /\ data = DataOfSize(0)
  /\ call = NoCall

NextColumnOrder ==
  \/ FlushEffects
  \/ \E cols \in ColumnSets : SetColumns(cols)
  \/ \E column \in HeaderColumns : StartDrag(column)
  \/ \E column \in HeaderColumns : HandleDragOver(column)
  \/ HandleDragLeave
  \/ \E column \in HeaderColumns : HandleDrop(column)
  \/ HandleDragEnd
  \/ OpenAddColumnModal
  \/ UpdateComputedColumnField("title", <<"T">>)
  \/ SaveComputedColumn
  \/ \E i \in 1..Len(computedColumns) : DeleteComputedColumn(computedColumns[i].key)

SpecColumnOrder == InitColumnOrder /\ [][NextColumnOrder]_vars

\* the keys of the columns input in static order
StaticOrder(cols) ==
  LET sorted == SortedColumns(cols, CompareStaticOrder(cols))
  IN  [i \in 1..Len(sorted) |-> sorted[i].key]

\* C30: the column order is initialised from the columns' static order only
\* when it is empty; once it is non-empty only a drop changes it, and a drop
\* only rearranges it: no change of the base or computed columns, and no run
\* of the effects after one, overwrites it.
C30_ColumnOrderKept ==
  [][/\ columnOrder = <<>> /\ columnOrder' # <<>> =>
          /\ "columnOrder" \in pendingEffects
          /\ columnOrder' = StaticOrder(columns)
     /\ columnOrder # <<>> /\ columnOrder' # columnOrder =>
          /\ \E column \in HeaderColumns : HandleDrop(column)
          /\ Len(columnOrder') = Len(columnOrder)
          /\ Range(columnOrder') = Range(columnOrder)]_vars

\* the effects have run after the column set changed, and the order list,
\* rearranged by a drop before, is not the static order of the new columns
C30_Witness ==
  /\ lastOp.op = "setColumns"
  /\ Idle
  /\ Len(columns) = 3
  /\ columnOrder = <<"b", "a">>


\* C31: a mutation is observed atomically: in no state that a reader of the
\* derived view can see (the listener of the event the handler emits reads
\* the state the handler leaves) has the filter list changed while
\* currentPage still holds a value other than 1.
C31_NoPartialView ==
  [][filters' # filters => currentPage' = 1]_vars


(***************************************************************************)
(* applyFiltering with entries that cannot be applied: an operator the     *)
(* switch does not know, 'between' without an array of two, 'inList'       *)
(* without an array; beside them entries that can.                         *)
(***************************************************************************)
FailOpenRows ==
  SeqsUpTo({ [a |-> Num(1), b |-> Str(<<"x">>)],
             [a |-> Num(2), b |-> Str(<<"y">>)],
             [a |-> Null, b |-> Str(<<"x">>)] }, MaxFnRows)

\* is this entry one the switch answers with the default for?
CannotApply(filter) ==
  \/ filter.operator \notin {"equals", "notEquals", "contains", "notContains", "startsWith",
                             "endsWith", "greaterThan", "lessThan", "greaterThanOrEqual",
                             "lessThanOrEqual", "between", "inList"}
  \/ filter.operator = "between" /\ ~(IsArray(filter.value) /\ Len(filter.value.items) = 2)
  \/ filter.operator = "inList" /\ ~IsArray(filter.value)

FailOpenChoices ==
  { [key |-> "a", value |-> Str(<<"1">>), operator |-> "like"],
    [key |-> "b", value |-> Str(<<"y">>), operator |-> "Equals"],
    [key |-> "a", value |-> Str(<<"1">>), operator |-> "between"],
    [key |-> "a", value |-> Arr(<<Num(2)>>), operator |-> "between"],
    [key |-> "a", value |-> Arr(<<Num(2), Num(2), Num(2)>>), operator |-> "between"],
    [key |-> "a", value |-> Arr(<<Num(2), Num(3)>>), operator |-> "between"],
    [key |-> "b", value |-> Str(<<"y">>), operator |-> "inList"],
    [key |-> "b", value |-> Null, operator |-> "inList"],
    [key |-> "b", value |-> Arr(<<Str(<<"Y">>), Num(2)>>), operator |-> "inList"],
    [key |-> "b", value |-> Arr(<<>>), operator |-> "inList"],
    [key |-> "b", value |-> Str(<<"x">>), operator |-> "contains"],
    [key |-> "a", value |-> Str(<<"1">>), operator |-> "equals"] }

InitFailOpen ==
  /\ TableAtRest
  /\ \E rows \in FailOpenRows, fs \in SeqsUpTo(FailOpenChoices, 2) :
       call = [op |-> "applyFiltering", rows |-> rows, filters |-> fs,
               result |-> <<>>, done |-> FALSE]

NextFailOpen == CallApplyFiltering

SpecFailOpen == InitFailOpen /\ [][NextFailOpen]_vars

\* the entries of a filter list that the switch can apply
Appliable(fs) == SelectSeq(fs, LAMBDA f : ~CannotApply(f))

\* C32: a filter entry with an unrecognised operator, a 'between' entry whose
\* value is not an array of two, or an 'inList' entry whose value is not an
\* array, is true of every row, and applyFiltering returns what it returns
\* without those entries.
C32_MalformedFilterFailsOpen ==
  FilterDone =>
    /\ \A k \in 1..Len(call.filters), i \in 1..Len(call.rows) :
         CannotApply(call.filters[k]) => ApplyFilterToRow(call.rows[i], call.filters[k])
    /\ call.result = ApplyFiltering(call.rows, Appliable(call.filters))

\* a malformed 'between' beside a 'contains' that drops a row: the rows kept
\* are those the 'contains' keeps
C32_Witness ==
  /\ FilterDone
  /\ Len(call.filters) = 2
  /\ call.filters[1].operator = "between"
  /\ CannotApply(call.filters[1])
  /\ call.filters[2].operator = "contains"
  /\ Len(call.rows) = 3
  /\ Len(call.result) = 2


(***************************************************************************)
(* computeColumnValue with conditions whose operator the switch of         *)
(* evaluateCondition does not know.                                        *)
(***************************************************************************)
ConditionOperators ==
  {"equals", "notEquals", "contains", "notContains", "greaterThan", "lessThan",
   "greaterThanOrEqual", "lessThanOrEqual", "isEmpty", "isNotEmpty"}

MalformedConditions ==
  {Condition("like", <<"t", "r", "u", "e">>, <<"M">>, <<"x">>),
   Condition("Equals", <<"1">>, <<"N">>, <<"y">>),
   Condition("startsWith", <<"t">>, <<"S">>, <<>>)}

MalformedDefinitions ==
  {[key |-> "cc", conditions |-> cs, defaultValue |-> d] :
     cs \in SeqsUpTo(MalformedConditions \cup Conditions, MaxConditions),
     d \in {<<>>, <<"b">>}}

InitMalformed ==
  /\ TableAtRest
  /\ \E row \in StatusRows, columnDef \in MalformedDefinitions :
       call = [op |-> "computeColumnValue", row |-> row, columnDef |-> columnDef,
               result |-> <<>>, done |-> FALSE]

NextMalformed == CallComputeColumnValue

SpecMalformed == InitMalformed /\ [][NextMalformed]_vars

\* C33: a condition whose operator is not one of the recognised condition
\* operators fails open: its predicate is true of the row, so when it is the
\* first condition of a definition computeColumnValue returns its thenValue.
C33_MalformedConditionFailsOpen ==
  ComputedDone =>
    LET conditions == call.columnDef.conditions
    IN  /\ \A i \in 1..Len(conditions) :
             conditions[i].operator \notin ConditionOperators =>
               EvaluateCondition(call.row, conditions[i])
        /\ (Len(conditions) > 0 /\ conditions[1].operator \notin ConditionOperators) =>
             call.result = conditions[1].thenValue


(***************************************************************************)
(* Column Freeze handlers.  frozenColumns maps a key to "left", "right" or *)
(* "null", the explicitly-unfrozen entry; a key without an entry has no    *)
(* override.                                                               *)
(***************************************************************************)
\* map.get(columnKey) || null
GetColumnFreezePosition(frozenMap, columnKey) ==
  IF columnKey \in DOMAIN frozenMap THEN frozenMap[columnKey] ELSE "null"

\* map.has(columnKey)
IsColumnFrozen(frozenMap, columnKey) == columnKey \in DOMAIN frozenMap

\* getEffectiveFreezePosition of the table
GetEffectiveFreezePosition(column, frozenMap) ==
  IF column.key \in DOMAIN frozenMap THEN frozenMap[column.key]
  ELSE IF column.frozen
       THEN (IF column.frozenPosition = "right" THEN "right" ELSE "left")
       ELSE "null"

\* every handler of the freeze state: the map it leaves
SetFrozenColumns(op, frozenMap) ==
  /\ Idle
  /\ frozenColumns' = frozenMap
  /\ lastOp' = Ran(op, {})
  /\ UNCHANGED <<data, config, filters, filterInputs, sorts, currentPage, pageSize,
                 selectedRows, scrollTop, pendingEffects, call>>
  /\ UNCHANGED <<columnVars, colorVars, columnWidths, resizingColumn, resizeStartX,
                 resizeStartWidth>>
  /\ Recompute

FreezeColumnLeft(columnKey) ==
  SetFrozenColumns("freezeColumnLeft", MapSet(frozenColumns, columnKey, "left"))

FreezeColumnRight(columnKey) ==
  SetFrozenColumns("freezeColumnRight", MapSet(frozenColumns, columnKey, "right"))

UnfreezeColumn(columnKey) ==
  SetFrozenColumns("unfreezeColumn", MapSet(frozenColumns, columnKey, "null"))

ToggleColumnFreeze(columnKey, position) ==
  SetFrozenColumns("toggleColumnFreeze",
    IF GetColumnFreezePosition(frozenColumns, columnKey) = position
    THEN MapSet(frozenColumns, columnKey, "null")
    ELSE IF position = "right" THEN MapSet(frozenColumns, columnKey, "right")
    ELSE MapSet(frozenColumns, columnKey, "left"))

ClearAllFrozenColumns == SetFrozenColumns("clearAllFrozenColumns", <<>>)

(***************************************************************************)
(* The table under its freeze handlers, with two columns of every static   *)
(* freeze.                                                                 *)
(***************************************************************************)
FreezeConfigs == {[BaseConfig EXCEPT !.pageSize = MaxPageSize]}

InitFreezeState ==
  /\ \E fa \in StaticFreezes, fb \in StaticFreezes :
       InitTableWith(FreezeConfigs, <<LayoutColumn("a", 0, fa), LayoutColumn("b", 1, fb)>>)
  /\ data = DataOfSize(0)
  /\ call = NoCall

NextFreezeState ==
  \/ FlushEffects
  \/ \E i \in 1..Len(columns) : FreezeColumnLeft(columns[i].key)
  \/ \E i \in 1..Len(columns) : FreezeColumnRight(columns[i].key)
  \/ \E i \in 1..Len(columns) : UnfreezeColumn(columns[i].key)
  \/ \E i \in 1..Len(columns), position \in {"left", "right"} :
       ToggleColumnFreeze(columns[i].key, position)
  \/ ClearAllFrozenColumns

SpecFreezeState == InitFreezeState /\ [][NextFreezeState]_vars

\* C34: toggleColumnFreeze(key, position) unfreezes a column that is frozen at
\* that position, by its override or by its static definition with no
\* override, and freezes any other column at the position.
C34_ToggleFreeze ==
  [][\A i \in 1..Len(columns), position \in {"left", "right"} :
       ToggleColumnFreeze(columns[i].key, position) =>
         GetEffectiveFreezePosition(columns[i], frozenColumns)' =
           IF GetEffectiveFreezePosition(columns[i], frozenColumns) = position
           THEN "null" ELSE position]_vars

\* The same statement for the columns that have an override when toggled: it
\* holds, so the toggle differs only for a column frozen by its static
\* definition.
C34_ToggleFreezeOverridden ==
  [][\A i \in 1..Len(columns), position \in {"left", "right"} :
       (ToggleColumnFreeze(columns[i].key, position) /\ columns[i].key \in DOMAIN frozenColumns) =>
         GetEffectiveFreezePosition(columns[i], frozenColumns)' =
           IF GetEffectiveFreezePosition(columns[i], frozenColumns) = position
           THEN "null" ELSE position]_vars

\* C35: isColumnFrozen(key) is true exactly when the override of key is
\* 'left' or 'right'; it is false after unfreezeColumn(key).
C35_IsFrozenIffOverrideFreezes ==
  \A i \in 1..Len(columns) :
    IsColumnFrozen(frozenColumns, columns[i].key) <=>
      GetColumnFreezePosition(frozenColumns, columns[i].key) \in {"left", "right"}


\* C36: with virtualization enabled, at every scroll offset, also one that
\* lies beyond the end of the content after the rows became fewer, the window
\* satisfies 0 <= startIndex <= endIndex <= total rows and visibleData has
\* endIndex - startIndex rows.
C36_WindowIndexesOrdered ==
  config.enableVirtualScroll =>
    LET window == view.virtualScrollData
    IN  /\ 0 <= window.startIndex
        /\ window.startIndex <= window.endIndex
        /\ window.endIndex <= Len(view.sortedData)
        /\ Len(window.visibleData) = window.endIndex - window.startIndex


\* C39: toggleAllSelection changes the membership of the keys of the rows on
\* the current page only: called with allSelected false it leaves every key
\* of the current page selected, called with allSelected true it leaves none
\* of them selected, every other key keeps its membership, and afterwards
\* computeAllSelected and computeSomeSelected are not both true.
C39_ToggleAllFrame ==
  [][ToggleAllSelection =>
       LET keys == PageKeys(view.paginatedData, config)
           allSelected == ComputeAllSelected(view.paginatedData, selectedRows, config)
       IN  /\ ~allSelected => keys \subseteq selectedRows'
           /\ allSelected => keys \cap selectedRows' = {}
           /\ selectedRows' \ keys = selectedRows \ keys
           /\ ~(/\ ComputeAllSelected(view'.paginatedData, selectedRows', config')
                /\ ComputeSomeSelected(view'.paginatedData, selectedRows', config'))]_vars

\* toggleAllSelection has run on the second page with a row of the first
\* page selected: the page's keys were added, the other key was kept
C39_Witness ==
  /\ lastOp.op = "toggleAllSelection"
  /\ currentPage = 2
  /\ view.paginatedData # <<>>
  /\ PageKeys(view.paginatedData, config) \subseteq selectedRows
  /\ selectedRows \ PageKeys(view.paginatedData, config) # {}


\* the list without the key
Without(order, key) == SelectSeq(order, LAMBDA k : k # key)

\* the places of the key in the list
PlacesOf(order, key) == {i \in 1..Len(order) : order[i] = key}

\* C37: the drag handlers keep the column order a rearrangement of the list
\* it was initialised to, without duplicate or lost key; a drop of the
\* dragged column D on a non-frozen target T, both in the list and D other
\* than T, puts D at the place T had and keeps the order of the other keys;
\* a drop with D or T missing from the list leaves the order as it was and
\* emits no column-reorder event.
C37_DropRearranges ==
  [][/\ columnOrder # <<>> =>
          /\ Len(columnOrder') = Len(columnOrder)
          /\ Range(columnOrder') = Range(columnOrder)
          /\ Cardinality(Range(columnOrder')) = Len(columnOrder')
     /\ \A column \in HeaderColumns :
          (HandleDrop(column) /\ draggedColumn # <<>>) =>
            LET dragged == draggedColumn[1]
                target == column.key
            IN  /\ (/\ PlacesOf(columnOrder, dragged) # {}
                    /\ PlacesOf(columnOrder, target) # {}
                    /\ dragged # target
                    /\ ~column.frozen) =>
                      /\ PlacesOf(columnOrder', dragged) = PlacesOf(columnOrder, target)
                      /\ Without(columnOrder', dragged) = Without(columnOrder, dragged)
                      /\ "columnReorder" \in lastOp'.events
                /\ (PlacesOf(columnOrder, dragged) = {} \/ PlacesOf(columnOrder, target) = {}) =>
                      /\ columnOrder' = columnOrder
                      /\ "columnReorder" \notin lastOp'.events]_vars

\* column a of the order a, b, n was dropped on column n
C37_Witness ==
  /\ lastOp.op = "handleDrop"
  /\ "columnReorder" \in lastOp.events
  /\ columnOrder = <<"b", "n", "a">>

\* C38: every handleDrop and every handleDragEnd ends the drag: when it
\* returns draggedColumn and dropTargetColumn are both null, whatever column
\* the drop landed on.
C38_DropEndsDrag ==
  [][((\E column \in HeaderColumns : HandleDrop(column)) \/ HandleDragEnd) =>
       /\ draggedColumn' = <<>>
       /\ dropTargetColumn' = <<>>]_vars


(***************************************************************************)
(* Column Resize handlers.  A resized column is the processed column the   *)
(* header shows; a pointer position is the event's clientX.                *)
(***************************************************************************)
\* v || d for a number or undefined v
NumberOr(v, d) == IF v.t = "num" /\ v.n # 0 THEN v.n ELSE d

\* processedColumns of the table; no column is hidden
ShownColumns ==
  ProcessedColumns(AllColumns(columns, computedColumns), columnWidths, columnOrder,
                   frozenColumns, {})

StartResize(column, clientX) ==
  /\ Idle
  /\ IF ~column.resizable
     THEN UNCHANGED <<resizingColumn, resizeStartX, resizeStartWidth>>
     ELSE /\ resizingColumn' = <<column.key>>
          /\ resizeStartX' = clientX
          /\ resizeStartWidth' = WidthOrDefault(column)
  /\ lastOp' = Ran("startResize", {})
  /\ UNCHANGED <<data, config, filters, filterInputs, sorts, currentPage, pageSize,
                 selectedRows, scrollTop, pendingEffects, call>>
  /\ UNCHANGED <<columnVars, colorVars, frozenColumns, columnWidths>>
  /\ Recompute

\* the width handleResizeMove stores: the start width moved by the pointer's
\* travel, raised to the minimum and then cut to the maximum
ClampedWidth(column, startWidth, diff) ==
  Min(NumberOr(column.maxWidth, DefaultMaxWidth),
      Max(NumberOr(column.minWidth, DefaultMinWidth), startWidth + diff))

HandleResizeMove(clientX) ==
  /\ Idle
  /\ IF resizingColumn = <<>> \/ FindIndex(ShownColumns, resizingColumn[1]) < 0
     THEN UNCHANGED columnWidths
     ELSE columnWidths' =
            MapSet(columnWidths, resizingColumn[1],
                   ClampedWidth(ShownColumns[FindIndex(ShownColumns, resizingColumn[1]) + 1],
                                resizeStartWidth, clientX - resizeStartX))
  /\ lastOp' = Ran("handleResizeMove", {})
  /\ UNCHANGED <<data, config, filters, filterInputs, sorts, currentPage, pageSize,
                 selectedRows, scrollTop, pendingEffects, call>>
  /\ UNCHANGED <<columnVars, colorVars, frozenColumns, resizingColumn, resizeStartX,
                 resizeStartWidth>>
  /\ Recompute

EndResize ==
  /\ Idle
  /\ resizingColumn' = <<>>
  /\ lastOp' = Ran("endResize",
                   IF /\ resizingColumn # <<>>
                      /\ resizingColumn[1] \in DOMAIN columnWidths
                      /\ columnWidths[resizingColumn[1]] # 0
                   THEN {"columnResize"} ELSE {})
  /\ UNCHANGED <<data, config, filters, filterInputs, sorts, currentPage, pageSize,
                 selectedRows, scrollTop, pendingEffects, call>>
  /\ UNCHANGED <<columnVars, colorVars, frozenColumns, columnWidths, resizeStartX,
                 resizeStartWidth>>
  /\ Recompute

(***************************************************************************)
(* The table under its resize handlers: a resizable column of every        *)
(* minimum and maximum width, 0 included, and a column that is not         *)
(* resizable; the pointer moves over three positions.                      *)
(***************************************************************************)
MinWidths == {0, DefaultMinWidth, 100, 400}
MaxWidths == {0, 300, DefaultMaxWidth}
PointerXs == {0, 100, 400}

ResizeColumn(key, order, resizable, minWidth, maxWidth) ==
  [key |-> key, order |-> order, width |-> Num(DefaultColumnWidth), frozen |-> FALSE,
   frozenPosition |-> "undefined", visible |-> TRUE, resizable |-> resizable,
   minWidth |-> Num(minWidth), maxWidth |-> Num(maxWidth)]

ResizeConfigs == {[BaseConfig EXCEPT !.pageSize = MaxPageSize]}

InitResize ==
  /\ \E minWidth \in MinWidths, maxWidth \in MaxWidths :
       InitTableWith(ResizeConfigs,
                     <<ResizeColumn("a", 0, TRUE, minWidth, maxWidth),
                       ResizeColumn("b", 1, FALSE, DefaultMinWidth, DefaultMaxWidth)>>)
  /\ data = DataOfSize(0)
  /\ call = NoCall

NextResize ==
  \/ FlushEffects
  \/ \E i \in 1..Len(ShownColumns), clientX \in PointerXs :
       StartResize(ShownColumns[i], clientX)
  \/ \E clientX \in PointerXs : HandleResizeMove(clientX)
  \/ EndResize

SpecResize == InitResize /\ [][NextResize]_vars

\* the columns whose minimum width is at most their maximum width
Bounded(col) == col.minWidth.n <= col.maxWidth.n

WidthsWithin(cols, widths) ==
  \A i \in 1..Len(cols) :
    Bounded(cols[i]) /\ cols[i].key \in DOMAIN widths
      => /\ cols[i].minWidth.n <= widths[cols[i].key]
         /\ widths[cols[i].key] <= cols[i].maxWidth.n

\* the overrides of every key but the given one are the same in both maps
SameBut(widths, after, key) ==
  \A k \in (DOMAIN widths \cup DOMAIN after) \ {key} :
    k \in DOMAIN widths /\ k \in DOMAIN after /\ widths[k] = after[k]

ResizesOnlyResizing ==
  /\ columnWidths' # columnWidths
       => resizingColumn # <<>> /\ SameBut(columnWidths, columnWidths', resizingColumn[1])
  /\ \A i \in 1..Len(columns) :
       ~columns[i].resizable => resizingColumn' # <<columns[i].key>>

\* C40: after any sequence of startResize, handleResizeMove and endResize every
\* width override stored for a column with minWidth <= maxWidth lies between
\* the column's minWidth and maxWidth; the overrides change only while a
\* resize is in progress and only for the column being resized; startResize
\* on a column that is not resizable starts no resize.
C40_ResizeWithinBounds ==
  [][WidthsWithin(columns, columnWidths)' /\ ResizesOnlyResizing]_vars

\* C40 for the columns whose maxWidth is not 0: the stored overrides lie
\* between minWidth and maxWidth, and the rest of the claim as it stands.
C40_ResizeWithinNonZeroBounds ==
  [][/\ WidthsWithin(SelectSeq(columns, LAMBDA col : col.maxWidth.n # 0), columnWidths)'
     /\ ResizesOnlyResizing]_vars

\* a resize has stored the maximum width of a column, and one has stored the
\* minimum width
C40_Witness ==
  /\ lastOp.op = "handleResizeMove"
  /\ "a" \in DOMAIN columnWidths
  /\ columns[1].minWidth.n = 100 /\ columns[1].maxWidth.n = 300
  /\ columnWidths["a"] = 100
  /\ resizeStartWidth = 300

=============================================================================
